---- MODULE Spec2Model ----
(***************************************************************************)
(* The invite-code ledger of projects/evomap (register.py, preflight.py)   *)
(* and the batch scheduler that drives it.                                 *)
(*                                                                         *)
(* The ledger is the version "2.0" state dict of load_state: invite_pool   *)
(* and output_codes are Python lists (sequences, duplicates possible),     *)
(* accounts and invite_codes_history are dicts (functions whose DOMAIN is  *)
(* the set of keys).  Account records keep the keys the code writes; the   *)
(* password and timestamp entries, which no ledger decision reads, are     *)
(* left out.  `state` is the dict in the memory of the running process,    *)
(* `disk` is output/state.json.  The model follows one process from the     *)
(* ledger it loads: main() with run_batch, or run_preflight.               *)
(* SpecFile follows load_state and save_state at the level of the file.    *)
(***************************************************************************)
EXTENDS Integers, Sequences, FiniteSets, TLC

VARIABLES
    state,        \* the state dict of the running process
    disk,         \* output/state.json as last written by save_state
    email_file,   \* the lines of the email file, as load_emails returns them
    remaining,    \* run_batch: the backlog
    idx,          \* run_batch: position of the for loop in remaining
    pc,           \* "start" | "loop" | "attempt" | "exit"
    account,      \* run_batch: email of the backlog entry being attempted
    invite_code,  \* run_batch: the code popped for the current attempt
    success,      \* run_batch: first  component of register_one_account's result
    new_codes,    \* run_batch: second component
    error_type,   \* run_batch: third  component
    introduced,   \* history variable: number of codes typed in, generated
                  \* or discovered so far
    proxy_pool,   \* run_batch: TRUE iff a ProxyPool instance was passed
    mark_failed_called,  \* proxy_pool.mark_failed was called in the last iteration
    exc,          \* the exception that left the process, None if none did
    loaded,       \* what the last load_state() of a reader of the file returned
    att,          \* register_one_account: its position, its locals, the two
                  \* browser contexts and the mailbox of the account
    pool,         \* common/proxy_pool.py: the fields of a ProxyPool instance,
                  \* the clock and the result of the last call
    chatgpt       \* projects/chatgpt/register.py: run_batch, its worker
                  \* threads, the file lock and the output file

vars == <<state, disk, email_file, remaining, idx, pc, account, invite_code,
          success, new_codes, error_type, introduced, proxy_pool,
          mark_failed_called, exc, loaded, att, pool, chatgpt>>

(***************************************************************************)
(* Bounds and input sets.  Codes and emails are opaque strings; the file   *)
(* starts with e1 and a pool with the first code of TokenOrder.            *)
(***************************************************************************)
TokenOrder == <<"A", "B", "C", "D", "E">>

Tokens == {TokenOrder[i] : i \in 1..Len(TokenOrder)}

Emails == {"e1", "e2"}

MaxFile == 2      \* entries in the email file
MaxInit == 2      \* codes in the pool of the ledger a process starts from
MaxGen == 4       \* codes one harvest after a registration can return
MaxAvail == 2     \* available codes preflight reads from one account page
MaxHarvest == 2   \* codes of one harvest in a batch where every attempt succeeds

None == "None"    \* Python's None where a string is expected

SeqsUpTo(S, n) == UNION {[1..k -> S] : k \in 0..n}

InSeq(x, s) == \E i \in 1..Len(s) : s[i] = x

Elems(s) == {s[i] : i \in 1..Len(s)}

NoDup(s) == \A i, j \in 1..Len(s) : i # j => s[i] # s[j]

Min(a, b) == IF a < b THEN a ELSE b

\* Python's s[lo:hi] (0-based, hi exclusive)
Slice(s, lo, hi) == SubSeq(s, lo + 1, Min(hi, Len(s)))

\* d[k] = v on a dict
Put(d, k, v) == [x \in (DOMAIN d) \cup {k} |-> IF x = k THEN v ELSE d[x]]

\* d.get(k, default)
Get(d, k, default) == IF k \in DOMAIN d THEN d[k] ELSE default

EmptyDict == [x \in {} |-> None]

\* n consecutive codes of TokenOrder (cyclic) from position o: a list can
\* repeat codes the ledger already holds and, past the universe, its own
Window(o, n) == [i \in 1..n |-> TokenOrder[((o + i - 2) % Len(TokenOrder)) + 1]]

EmailFiles == {f \in SeqsUpTo(Emails, MaxFile) : Len(f) >= 1 /\ f[1] = "e1"}

InitialPools ==
    {p \in SeqsUpTo(Tokens, MaxInit) : NoDup(p) /\ (Len(p) >= 1 => p[1] = TokenOrder[1])}

InitialCodeLists == {p \in InitialPools : Len(p) >= 1}

\* what register_one_account can return as its list of generated codes
GeneratedLists == {Window(o, n) : o \in 1..Len(TokenOrder), n \in 0..MaxGen}

\* what parse_invite_codes can return as result["available"]
AvailLists == {Window(o, n) : o \in 1..Len(TokenOrder), n \in 0..MaxAvail}

ErrorTypes == {"invite_code_invalid", "email_registered", "rate_limit",
               "server_error", "other"}

Modes == {"smart", "full", "skip", "force"}

\* the value of `loaded` before any load_state() of a reader
NotLoaded == [at |-> "never"]

\* the value of `att` while no call of register_one_account is followed
NoAttempt == [pc |-> "none"]

\* the value of `pool` while no ProxyPool instance is followed
NoPool == [mode |-> "none"]

\* the value of `chatgpt` while the ChatGPT batch is not followed
NoChatGPT == [pc |-> "none"]

(***************************************************************************)
(* register.py: state management.                                          *)
(***************************************************************************)
\* load_state() when output/state.json does not exist
DefaultState ==
    [version |-> "2.0",
     invite_pool |-> <<>>,
     output_codes |-> <<>>,
     accounts |-> EmptyDict,
     invite_codes_history |-> EmptyDict,
     statistics |-> [total_accounts |-> 0, completed |-> 0, failed |-> 0,
                     skipped |-> 0, total_codes_generated |-> 0]]

CountStatus(accounts, s) ==
    Cardinality({e \in DOMAIN accounts : accounts[e].status = s})

\* state.get("version") == "2.0"
IsV2(st) == Get(st, "version", None) = "2.0"

\* save_state raises KeyError: line 152 subscripts state["statistics"]
save_state_raises(st) == IsV2(st) /\ "statistics" \notin DOMAIN st

\* save_state, lines 150-156: refreshes the statistics of a version 2.0 dict;
\* the dict is what lines 158-159 then dump
save_state(st) ==
    IF IsV2(st)
    THEN LET accounts == Get(st, "accounts", EmptyDict)
         IN  [st EXCEPT !.statistics =
                [total_accounts |-> Cardinality(DOMAIN accounts),
                 completed |-> CountStatus(accounts, "completed"),
                 failed |-> CountStatus(accounts, "failed"),
                 skipped |-> CountStatus(accounts, "skipped"),
                 total_codes_generated |-> st.statistics.total_codes_generated]]
    ELSE st

\* mark_account_completed raises KeyError: lines 170, 181, 188 subscript
\* state["accounts"], state["invite_codes_history"], state["statistics"]
mark_account_completed_raises(st, invite_code_used) ==
    /\ IsV2(st)
    /\ \/ "accounts" \notin DOMAIN st
       \/ invite_code_used # None /\ "invite_codes_history" \notin DOMAIN st
       \/ "statistics" \notin DOMAIN st

\* mark_account_completed as it would be with >= 3 in line 175
mark_account_completed_at_least_3(st, email, invite_code_used, invite_codes_generated) ==
    IF ~IsV2(st)
    THEN IF ~InSeq(email, Get(st, "completed_emails", <<>>))
         THEN Put(st, "completed_emails",
                  Append(Get(st, "completed_emails", <<>>), email))
         ELSE st
    ELSE
    [st EXCEPT
        !.accounts = Put(@, email,
            [status |-> "completed",
             invite_code_used |-> invite_code_used,
             invite_codes_generated |-> invite_codes_generated,
             codes_generation_complete |-> (Len(invite_codes_generated) >= 3)]),
        !.invite_codes_history =
            IF invite_code_used # None
            THEN Put(@, invite_code_used, [used_by |-> email, status |-> "consumed"])
            ELSE @,
        !.statistics.total_codes_generated = @ + Len(invite_codes_generated)]

mark_account_completed(st, email, invite_code_used, invite_codes_generated) ==
    IF ~IsV2(st)
    THEN IF ~InSeq(email, Get(st, "completed_emails", <<>>))
         THEN Put(st, "completed_emails",
                  Append(Get(st, "completed_emails", <<>>), email))
         ELSE st
    ELSE
    [st EXCEPT
        !.accounts = Put(@, email,
            [status |-> "completed",
             invite_code_used |-> invite_code_used,
             invite_codes_generated |-> invite_codes_generated,
             codes_generation_complete |-> (Len(invite_codes_generated) = 3)]),
        !.invite_codes_history =
            IF invite_code_used # None
            THEN Put(@, invite_code_used, [used_by |-> email, status |-> "consumed"])
            ELSE @,
        !.statistics.total_codes_generated = @ + Len(invite_codes_generated)]

\* mark_account_failed raises KeyError: lines 199, 210 subscript
\* state["accounts"], state["invite_codes_history"]
mark_account_failed_raises(st, invite_code_used) ==
    /\ IsV2(st)
    /\ \/ "accounts" \notin DOMAIN st
       \/ /\ invite_code_used # None
          /\ ~InSeq(invite_code_used, st.invite_pool)
          /\ "invite_codes_history" \notin DOMAIN st

mark_account_failed(st, email, invite_code_used, error) ==
    IF ~IsV2(st)
    THEN IF ~InSeq(email, Get(st, "failed_emails", <<>>))
         THEN Put(st, "failed_emails", Append(Get(st, "failed_emails", <<>>), email))
         ELSE st
    ELSE
    LET back == invite_code_used # None /\ ~InSeq(invite_code_used, st.invite_pool)
    IN  [st EXCEPT
            !.accounts = Put(@, email,
                [status |-> "failed",
                 invite_code_used |-> invite_code_used,
                 error |-> error]),
            !.invite_pool = IF back THEN Append(@, invite_code_used) ELSE @,
            !.invite_codes_history =
                IF back
                THEN Put(@, invite_code_used, [used_by |-> email, status |-> "returned"])
                ELSE @]

\* is_account_processed as it would be if every recorded account counted
is_account_processed_any_record(st, email) ==
    email \in DOMAIN Get(st, "accounts", EmptyDict)

is_account_processed(st, email) ==
    IF ~IsV2(st)
    THEN InSeq(email, Get(st, "completed_emails", <<>>))
    ELSE IF email \notin DOMAIN Get(st, "accounts", EmptyDict)
    THEN FALSE
    ELSE Get(st.accounts[email], "status", None) = "completed"

\* login_and_generate_codes: line 391 calls relogin_and_generate_codes, a name
\* that is defined nowhere; the NameError is caught by the except clause of
\* line 397 and the function returns [].
login_and_generate_codes == <<>>

\* the loop of lines 362-365: append every code that is in neither list
RECURSIVE AppendNewToPool(_, _)
AppendNewToPool(st, codes) ==
    IF codes = <<>>
    THEN st
    ELSE LET code == Head(codes)
             fresh == ~InSeq(code, st.invite_pool) /\ ~InSeq(code, st.output_codes)
         IN  AppendNewToPool(
                 IF fresh THEN [st EXCEPT !.invite_pool = Append(@, code)] ELSE st,
                 Tail(codes))

\* the number of invocations of handle_invalid_invite_code that one call from
\* run_batch makes: the call itself and the recursive calls of line 336
RECURSIVE handle_invalid_invite_code_calls(_, _, _)
handle_invalid_invite_code_calls(st, invalid_code, generated_codes) ==
    IF st.output_codes # <<>>
    THEN LET new_code == Head(st.output_codes)
             popped == [st EXCEPT !.output_codes = Tail(@)]
         IN  IF ~InSeq(new_code, popped.invite_pool)
             THEN 1
             ELSE 1 + handle_invalid_invite_code_calls(popped, invalid_code,
                                                       generated_codes)
    ELSE 1

\* handle_invalid_invite_code as it would be if line 336 returned True for a
\* popped code that is already in the pool instead of trying the next one
handle_invalid_invite_code_no_retry(st, invalid_code, generated_codes) ==
    IF st.output_codes # <<>>
    THEN LET new_code == Head(st.output_codes)
             popped == [st EXCEPT !.output_codes = Tail(@)]
         IN  IF ~InSeq(new_code, popped.invite_pool)
             THEN [ok |-> TRUE, st |-> [popped EXCEPT !.invite_pool = Append(@, new_code)]]
             ELSE [ok |-> TRUE, st |-> popped]
    ELSE IF invalid_code \notin DOMAIN Get(st, "invite_codes_history", EmptyDict)
    THEN [ok |-> FALSE, st |-> st]
    ELSE LET used_by_email == st.invite_codes_history[invalid_code].used_by
         IN  IF \/ used_by_email \notin DOMAIN Get(st, "accounts", EmptyDict)
                \/ Get(st.accounts[used_by_email], "status", None) # "completed"
             THEN [ok |-> FALSE, st |-> st]
             ELSE IF generated_codes # <<>>
             THEN LET added == AppendNewToPool(st, generated_codes)
                  IN  [ok |-> Len(added.invite_pool) > 0, st |-> added]
             ELSE [ok |-> FALSE, st |-> st]

\* handle_invalid_invite_code with a browser; generated_codes is what
\* login_and_generate_codes returns if the function gets that far.
\* Result: [ok |-> the returned bool, st |-> the dict afterwards]
RECURSIVE handle_invalid_invite_code(_, _, _)
handle_invalid_invite_code(st, invalid_code, generated_codes) ==
    IF st.output_codes # <<>>
    THEN LET new_code == Head(st.output_codes)
             popped == [st EXCEPT !.output_codes = Tail(@)]
         IN  IF ~InSeq(new_code, popped.invite_pool)
             THEN [ok |-> TRUE, st |-> [popped EXCEPT !.invite_pool = Append(@, new_code)]]
             ELSE handle_invalid_invite_code(popped, invalid_code, generated_codes)
    ELSE IF invalid_code \notin DOMAIN Get(st, "invite_codes_history", EmptyDict)
    THEN [ok |-> FALSE, st |-> st]
    ELSE LET used_by_email == st.invite_codes_history[invalid_code].used_by
         IN  IF \/ used_by_email \notin DOMAIN Get(st, "accounts", EmptyDict)
                \/ Get(st.accounts[used_by_email], "status", None) # "completed"
             THEN [ok |-> FALSE, st |-> st]
             ELSE IF generated_codes # <<>>
             THEN LET added == AppendNewToPool(st, generated_codes)
                  IN  [ok |-> Len(added.invite_pool) > 0, st |-> added]
             ELSE [ok |-> FALSE, st |-> st]

\* the loop of lines 426-433
RECURSIVE DistributeHarvest(_, _)
DistributeHarvest(st, codes) ==
    IF codes = <<>>
    THEN st
    ELSE LET code == Head(codes)
             fresh == ~InSeq(code, st.invite_pool) /\ ~InSeq(code, st.output_codes)
             next == IF ~fresh THEN st
                     ELSE IF Len(st.invite_pool) = 0
                     THEN [st EXCEPT !.invite_pool = Append(@, code)]
                     ELSE [st EXCEPT !.output_codes = Append(@, code)]
         IN  DistributeHarvest(next, Tail(codes))

\* handle_email_registered as it would be without the test of line 413
handle_email_registered_always_inserts(st, email, code, generated_codes) ==
    LET returned == [st EXCEPT !.invite_pool = <<code>> \o @]
    IN  IF generated_codes # <<>>
        THEN DistributeHarvest(returned, generated_codes)
        ELSE returned

\* handle_email_registered as it would be if the harvest of lines 426-433
\* came before the return of the token (lines 413-415)
handle_email_registered_harvest_first(st, email, code, generated_codes) ==
    LET harvested == IF generated_codes # <<>>
                     THEN DistributeHarvest(st, generated_codes)
                     ELSE st
    IN  IF ~InSeq(code, harvested.invite_pool)
        THEN [harvested EXCEPT !.invite_pool = <<code>> \o @]
        ELSE harvested

\* handle_email_registered; its return value is not used by run_batch
handle_email_registered(st, email, code, generated_codes) ==
    LET returned == IF ~InSeq(code, st.invite_pool)
                    THEN [st EXCEPT !.invite_pool = <<code>> \o @]
                    ELSE st
    IN  IF generated_codes # <<>>
        THEN DistributeHarvest(returned, generated_codes)
        ELSE returned

(***************************************************************************)
(* register.py: run_batch.                                                 *)
(***************************************************************************)
\* the success branch as it would be if line 1059 assigned output_codes
\* instead of extending it
CommitSuccess_assigns_output(st, email, code, codes) ==
    LET marked == mark_account_completed(st, email, code, codes)
        to_pool == IF Len(codes) >= 1 THEN <<codes[1]>> ELSE <<>>
    IN  [marked EXCEPT !.invite_pool = @ \o to_pool,
                       !.output_codes = IF Len(codes) >= 2
                                        THEN Slice(codes, 1, 3)
                                        ELSE @]

\* the success branch as it would be without the append of line 1055
CommitSuccess_no_refill(st, email, code, codes) ==
    LET marked == mark_account_completed(st, email, code, codes)
    IN  [marked EXCEPT !.output_codes = @ \o Slice(codes, 1, 3)]

\* the success branch, lines 1041-1069
CommitSuccess(st, email, code, codes) ==
    LET marked == mark_account_completed(st, email, code, codes)
        to_pool == IF Len(codes) >= 1 THEN <<codes[1]>> ELSE <<>>
        to_output == IF Len(codes) >= 3 THEN Slice(codes, 1, 3)
                     ELSE IF Len(codes) = 2 THEN <<codes[2]>>
                     ELSE <<>>
    IN  [marked EXCEPT !.invite_pool = @ \o to_pool,
                       !.output_codes = @ \o to_output]

\* the failure branch as it would be if line 1104 appended the token to the
\* pool instead of inserting it at the front
HandleFailure_appends_token(st, email, code, err) ==
    IF err = "invite_code_invalid"
    THEN LET r == handle_invalid_invite_code(st, code, login_and_generate_codes)
         IN  IF ~r.ok
             THEN [stop |-> TRUE, st |-> r.st]
             ELSE [stop |-> FALSE, st |-> mark_account_failed(r.st, email, code, err)]
    ELSE IF err = "email_registered"
    THEN [stop |-> FALSE,
          st |-> mark_account_failed(
                     handle_email_registered(st, email, code, login_and_generate_codes),
                     email, code, err)]
    ELSE [stop |-> FALSE,
          st |-> mark_account_failed(
                     [st EXCEPT !.invite_pool = Append(@, code)],
                     email, code, IF err = None THEN "unknown" ELSE err)]

\* the failure branch, lines 1088-1114.
\* Result: [stop |-> the loop is left by the break of line 1096, st |-> dict]
HandleFailure(st, email, code, err) ==
    IF err = "invite_code_invalid"
    THEN LET r == handle_invalid_invite_code(st, code, login_and_generate_codes)
         IN  IF ~r.ok
             THEN [stop |-> TRUE, st |-> r.st]
             ELSE [stop |-> FALSE, st |-> mark_account_failed(r.st, email, code, err)]
    ELSE IF err = "email_registered"
    THEN [stop |-> FALSE,
          st |-> mark_account_failed(
                     handle_email_registered(st, email, code, login_and_generate_codes),
                     email, code, err)]
    ELSE [stop |-> FALSE,
          st |-> mark_account_failed(
                     [st EXCEPT !.invite_pool = <<code>> \o @],
                     email, code, IF err = None THEN "unknown" ELSE err)]

\* ProxyErrors as it would be if every retryable failure marked the proxy
ProxyErrors_with_other == {"rate_limit", "server_error", "timeout", "other"}

\* line 1074: the error types after which the proxy is marked failed
ProxyErrors == {"rate_limit", "server_error", "timeout"}

\* main, line 1283 to the end of the process: run_batch returns None on every
\* path and main calls no sys.exit, so the interpreter exits with 0 unless
\* an exception left main
ExitCode == IF exc # None THEN 1 ELSE 0

\* lines 987-988
Backlog(st, file) == SelectSeq(file, LAMBDA e : ~is_account_processed(st, e))

(***************************************************************************)
(* preflight.py: run_preflight, version "2.0" branch.                      *)
(***************************************************************************)
\* list(dict.fromkeys(s))
RECURSIVE DictFromKeys(_)
DictFromKeys(s) ==
    IF s = <<>>
    THEN <<>>
    ELSE LET rest == DictFromKeys(SubSeq(s, 1, Len(s) - 1))
             last == s[Len(s)]
         IN  IF InSeq(last, rest) THEN rest ELSE Append(rest, last)

\* lines 326-371: the entries of the file that are logged in to
NeedCheck(st, file, mode) ==
    IF mode = "force"
    THEN file
    ELSE SelectSeq(file, LAMBDA e :
            /\ e \in DOMAIN st.accounts
            /\ st.accounts[e].status = "completed"
            /\ mode # "skip"
            /\ \/ mode = "full"
               \/ ~ \/ Get(st.accounts[e], "codes_generation_complete", FALSE)
                    \/ Len(Get(st.accounts[e], "invite_codes_generated", <<>>)) = 3)

\* what one login of the loop of lines 402-480 yields
LoginResults ==
    {[login_ok |-> FALSE, available |-> <<>>]}
        \cup {[login_ok |-> TRUE, available |-> a] : a \in AvailLists}

\* confirmed_accounts (ok = TRUE) and login_failed_accounts (ok = FALSE)
RECURSIVE AccountsWith(_, _, _)
AccountsWith(need_check, results, ok) ==
    IF need_check = <<>>
    THEN <<>>
    ELSE LET rest == AccountsWith(Tail(need_check), Tail(results), ok)
         IN  IF Head(results).login_ok = ok THEN <<Head(need_check)>> \o rest ELSE rest

\* all_available_codes before line 491
RECURSIVE AllAvailable(_)
AllAvailable(results) ==
    IF results = <<>>
    THEN <<>>
    ELSE Head(results).available \o AllAvailable(Tail(results))

\* account_details[email]["available"]: the last entry of email wins
DetailsAvailable(need_check, results, email) ==
    LET is == {i \in 1..Len(need_check) : need_check[i] = email}
    IN  IF is = {} THEN <<>>
        ELSE results[CHOOSE i \in is : \A j \in is : j <= i].available

\* lines 519-533
RECURSIVE ApplyConfirmed(_, _, _, _)
ApplyConfirmed(accounts, confirmed, need_check, results) ==
    IF confirmed = <<>>
    THEN accounts
    ELSE LET email == Head(confirmed)
             updated ==
                IF email \in DOMAIN accounts
                THEN Put(accounts, email, Put(accounts[email], "status", "completed"))
                ELSE Put(accounts, email,
                        [status |-> "completed",
                         invite_code_used |-> "unknown",
                         invite_codes_generated |->
                            DetailsAvailable(need_check, results, email),
                         note |-> "verified by preflight"])
         IN  ApplyConfirmed(updated, Tail(confirmed), need_check, results)

\* lines 535-548
RECURSIVE ApplyLoginFailed(_, _)
ApplyLoginFailed(accounts, login_failed) ==
    IF login_failed = <<>>
    THEN accounts
    ELSE LET email == Head(login_failed)
             updated ==
                IF email \in DOMAIN accounts
                THEN Put(accounts, email,
                        Put(Put(accounts[email], "status", "failed"),
                            "error", "login_failed_in_preflight"))
                ELSE Put(accounts, email,
                        [status |-> "failed",
                         invite_code_used |-> "unknown",
                         error |-> "login_failed_in_preflight"])
         IN  ApplyLoginFailed(updated, Tail(login_failed))

\* lines 550-560: the codes of all_available_codes that are in neither list
PreflightNewCodes(st, all_available_codes) ==
    SelectSeq(all_available_codes,
              LAMBDA c : c \notin Elems(st.invite_pool) \cup Elems(st.output_codes))

\* lines 516-560: the update of the state dict
PreflightUpdate(st, need_check, results) ==
    LET confirmed == AccountsWith(need_check, results, TRUE)
        login_failed == AccountsWith(need_check, results, FALSE)
        all_available_codes == DictFromKeys(AllAvailable(results))
        accounts == ApplyLoginFailed(
                        ApplyConfirmed(st.accounts, confirmed, need_check, results),
                        login_failed)
        codes == PreflightNewCodes(st, all_available_codes)
    IN  [st EXCEPT
            !.accounts = accounts,
            !.invite_pool = IF codes # <<>> THEN <<codes[1]>> ELSE @,
            !.output_codes = IF codes # <<>> THEN Tail(codes) \o @ ELSE @]

(***************************************************************************)
(* The ledgers a process can find in output/state.json.  The lists are     *)
(* duplicate-free; a record has one of the shapes the code writes.  An     *)
(* output code of the ledger was generated by an account of another email  *)
(* file.                                                                   *)
(***************************************************************************)
SpentCode == TokenOrder[Len(TokenOrder)]

OutputCode == TokenOrder[Len(TokenOrder) - 1]

InitialOutputs == {<<>>, <<OutputCode>>}

InitialRecords ==
    { \* mark_account_completed, three codes / one code
      [status |-> "completed", invite_code_used |-> SpentCode,
       invite_codes_generated |-> Window(1, 3), codes_generation_complete |-> TRUE],
      [status |-> "completed", invite_code_used |-> SpentCode,
       invite_codes_generated |-> Window(1, 1), codes_generation_complete |-> FALSE],
      \* preflight.py lines 542-548
      [status |-> "failed", invite_code_used |-> "unknown",
       error |-> "login_failed_in_preflight"],
      \* the same record after line 522 of a later preflight
      [status |-> "completed", invite_code_used |-> "unknown",
       error |-> "login_failed_in_preflight"] }

InitialAccounts ==
    UNION {[D -> InitialRecords] : D \in SUBSET Emails}

UsedSpent(accounts) ==
    {e \in DOMAIN accounts : accounts[e].invite_code_used = SpentCode}

InitialLedgers ==
    {save_state(
        [version |-> "2.0",
         invite_pool |-> p,
         output_codes |-> o,
         accounts |-> a,
         invite_codes_history |->
            [c \in {SpentCode : e \in UsedSpent(a)} |->
                [used_by |-> CHOOSE e \in UsedSpent(a) : TRUE, status |-> "consumed"]],
         statistics |-> [DefaultState.statistics EXCEPT !.total_codes_generated =
            IF UsedSpent(a) = {} THEN 0
            ELSE Len(a[CHOOSE e \in UsedSpent(a) : TRUE].invite_codes_generated)]])
     : p \in {q \in InitialPools : ~InSeq(SpentCode, q)},
       o \in InitialOutputs,
       a \in {b \in InitialAccounts : Cardinality(UsedSpent(b)) <= 1}}

Init ==
    /\ state \in InitialLedgers
    /\ NoDup(state.invite_pool \o state.output_codes)
    /\ disk = state
    /\ email_file \in EmailFiles
    /\ remaining = <<>>
    /\ idx = 0
    /\ pc = "start"
    /\ account = None
    /\ invite_code = None
    /\ success = FALSE
    /\ new_codes = <<>>
    /\ error_type = None
    /\ introduced = Len(state.invite_pool) + Len(state.output_codes)
                        + Cardinality(DOMAIN state.invite_codes_history)
    /\ proxy_pool \in BOOLEAN
    /\ mark_failed_called = FALSE
    /\ exc = None
    /\ loaded = NotLoaded
    /\ pool = NoPool
    /\ chatgpt = NoChatGPT
    /\ att = NoAttempt

\* main(), lines 1242-1257: the pool is empty and the user types the first codes
MainInitialCodes ==
    /\ pc = "start"
    /\ disk.invite_pool = <<>>
    /\ \E initial_codes \in InitialCodeLists :
        /\ state' = save_state([disk EXCEPT !.invite_pool = @ \o initial_codes])
        /\ introduced' = introduced + Len(initial_codes)
    /\ disk' = state'
    /\ UNCHANGED <<pool, chatgpt, att, email_file, remaining, idx, pc, account, invite_code,
                   success, new_codes, error_type, proxy_pool,
                   mark_failed_called, exc, loaded>>

\* run_preflight, lines 296-602, up to the question of _ask_start_registration
Preflight ==
    /\ pc = "start"
    /\ \E mode \in Modes :
        LET need_check == NeedCheck(disk, email_file, mode)
        IN  \E results \in [1..Len(need_check) -> LoginResults] :
                IF need_check = <<>>
                THEN UNCHANGED <<state, disk, introduced>>
                ELSE /\ state' = save_state(PreflightUpdate(disk, need_check, results))
                     /\ disk' = state'
                     /\ introduced' = introduced + Len(PreflightNewCodes(disk,
                                            DictFromKeys(AllAvailable(results))))
    /\ pc' = "exit"
    /\ UNCHANGED <<pool, chatgpt, att, email_file, remaining, idx, account, invite_code, success,
                   new_codes, error_type, proxy_pool, mark_failed_called, exc,
                   loaded>>

\* StartBatch as it would be without the test of lines 995-997
StartBatch_no_pool_check ==
    /\ pc = "start"
    /\ state' = disk
    /\ remaining' = Backlog(disk, email_file)
    /\ idx' = 1
    /\ pc' = IF remaining' = <<>> THEN "exit" ELSE "loop"
    /\ UNCHANGED <<pool, chatgpt, att, disk, email_file, account, invite_code, success, new_codes,
                   error_type, introduced, proxy_pool, mark_failed_called, exc,
                   loaded>>

\* run_batch, lines 966-1029: load, build the backlog, enter the loop
StartBatch ==
    /\ pc = "start"
    /\ state' = disk
    /\ remaining' = Backlog(disk, email_file)
    /\ idx' = 1
    /\ pc' = IF remaining' = <<>> \/ disk.invite_pool = <<>> THEN "exit" ELSE "loop"
    /\ UNCHANGED <<pool, chatgpt, att, disk, email_file, account, invite_code, success, new_codes,
                   error_type, introduced, proxy_pool, mark_failed_called, exc,
                   loaded>>

\* NextEntry as it would be with pop() in place of pop(0)
NextEntry_pop_last ==
    /\ pc = "loop"
    /\ idx <= Len(remaining)
    /\ account' = remaining[idx]
    /\ IF state.invite_pool = <<>>
       THEN /\ pc' = "exit"
            /\ UNCHANGED <<state, disk, invite_code>>
       ELSE /\ invite_code' = state.invite_pool[Len(state.invite_pool)]
            /\ state' = save_state([state EXCEPT !.invite_pool =
                                        SubSeq(@, 1, Len(@) - 1)])
            /\ disk' = state'
            /\ pc' = "attempt"
    /\ mark_failed_called' = FALSE
    /\ UNCHANGED <<pool, chatgpt, att, email_file, remaining, idx, success, new_codes, error_type,
                   introduced, proxy_pool, exc, loaded>>

\* lines 1029-1035: the next backlog entry; stop if the pool is empty, else
\* pop the head of the pool and save
NextEntry ==
    /\ pc = "loop"
    /\ idx <= Len(remaining)
    /\ account' = remaining[idx]
    /\ IF state.invite_pool = <<>>
       THEN /\ pc' = "exit"
            /\ UNCHANGED <<state, disk, invite_code>>
       ELSE /\ invite_code' = Head(state.invite_pool)
            /\ state' = save_state([state EXCEPT !.invite_pool = Tail(@)])
            /\ disk' = state'
            /\ pc' = "attempt"
    /\ mark_failed_called' = FALSE
    /\ UNCHANGED <<pool, chatgpt, att, email_file, remaining, idx, success, new_codes, error_type,
                   introduced, proxy_pool, exc, loaded>>

\* the for loop is exhausted, lines 1131-1143
BatchDone ==
    /\ pc = "loop"
    /\ idx > Len(remaining)
    /\ pc' = "exit"
    /\ UNCHANGED <<pool, chatgpt, att, state, disk, email_file, remaining, idx, account, invite_code,
                   success, new_codes, error_type, introduced, proxy_pool,
                   mark_failed_called, exc, loaded>>

\* lines 1039-1069, 1116: the attempt returns (True, codes, None), codes non-empty
AttemptSuccess ==
    /\ pc = "attempt"
    /\ \E codes \in GeneratedLists \ {<<>>} :
        /\ success' = TRUE
        /\ new_codes' = codes
        /\ error_type' = None
        /\ state' = save_state(CommitSuccess(state, account, invite_code, codes))
        /\ introduced' = introduced + Len(codes)
    /\ disk' = state'
    /\ idx' = idx + 1
    /\ pc' = "loop"
    /\ UNCHANGED <<pool, chatgpt, att, email_file, remaining, account, invite_code, proxy_pool,
                   mark_failed_called, exc, loaded>>

\* lines 1039, 1070-1116: the attempt returns (True, [], None) or (False, [], err)
AttemptFailure ==
    /\ pc = "attempt"
    /\ \E ok \in BOOLEAN, err \in ErrorTypes \cup {None} :
        /\ ok <=> (err = None)
        /\ success' = ok
        /\ new_codes' = <<>>
        /\ error_type' = err
        /\ mark_failed_called' = (proxy_pool /\ err \in ProxyErrors)
        /\ LET r == HandleFailure(state, account, invite_code, err)
           IN  IF r.stop
               THEN /\ state' = r.st
                    /\ disk' = disk
                    /\ idx' = idx
                    /\ pc' = "exit"
               ELSE /\ state' = save_state(r.st)
                    /\ disk' = state'
                    /\ idx' = idx + 1
                    /\ pc' = "loop"
    /\ UNCHANGED <<pool, chatgpt, att, email_file, remaining, account, invite_code, introduced,
                   proxy_pool, exc, loaded>>

\* register_one_account, line 600: create_context(browser) is called before
\* the try of line 601, so an error of browser.new_context leaves
\* register_one_account and, through the try/finally of lines 1028-1132,
\* run_batch
AttemptRaises ==
    /\ pc = "attempt"
    /\ exc' = "Error"
    /\ pc' = "raised"
    /\ UNCHANGED <<pool, chatgpt, att, state, disk, email_file, remaining, idx, account, invite_code,
                   success, new_codes, error_type, introduced, proxy_pool,
                   mark_failed_called, loaded>>

Next ==
    \/ MainInitialCodes
    \/ Preflight
    \/ StartBatch
    \/ NextEntry
    \/ BatchDone
    \/ AttemptSuccess
    \/ AttemptFailure
    \/ AttemptRaises

Spec == Init /\ [][Next]_vars

\* main lines 1242-1257 and run_batch lines 966-1029 alone: the steps of a
\* process up to and including the construction of the backlog.  pc = "start"
\* holds only before StartBatch, so these are all the StartBatch steps of Spec.
NextBacklog ==
    \/ MainInitialCodes
    \/ StartBatch

SpecBacklog == Init /\ [][NextBacklog]_vars

\* register.py alone, main() and run_batch with a proxy pool, started on a
\* ledger that holds a pool and nothing else: the first batch over an email
\* file
InitRegister ==
    /\ Init
    /\ DOMAIN state.accounts = {}
    /\ state.output_codes = <<>>
    /\ proxy_pool

NextRegister ==
    \/ MainInitialCodes
    \/ StartBatch
    \/ NextEntry
    \/ BatchDone
    \/ AttemptSuccess
    \/ AttemptFailure
    \/ AttemptRaises

SpecRegister == InitRegister /\ [][NextRegister]_vars

\* run_batch when every attempt returns (True, codes, None) with codes
\* non-empty, started on a ledger whose pool is not empty.  The loop of
\* run_batch runs without waiting on anything but the attempt, so a step
\* that is possible is taken.  Only new_codes[0] of a harvest reaches the
\* pool, so the harvests are kept to MaxHarvest codes.
InitFission ==
    /\ InitRegister
    /\ state.invite_pool # <<>>

NextFission ==
    \/ StartBatch
    \/ NextEntry
    \/ BatchDone
    \/ (AttemptSuccess /\ Len(new_codes') <= MaxHarvest)

SpecFission == InitFission /\ [][NextFission]_vars /\ WF_vars(NextFission)

(***************************************************************************)
(* The two handlers of run_batch's failure branch as functions of the      *)
(* ledger and of the list that login_and_generate_codes hands them.  The   *)
(* ledger is one that a handler can be called on: a token has been popped, *)
(* invite_pool and output_codes hold any codes (the success branch appends *)
(* without a membership test, so both can hold a code twice), and the      *)
(* popped token is unknown to the history or was used before by e2, whose  *)
(* record is completed or failed.  disk keeps the ledger of the call.      *)
(***************************************************************************)
HandlerTokens == {TokenOrder[i] : i \in 1..3}

HandlerLedgers(code) ==
    LET bases == {[DefaultState EXCEPT !.invite_pool = p, !.output_codes = o]
                    : p \in SeqsUpTo(HandlerTokens, MaxInit),
                      o \in SeqsUpTo(HandlerTokens, MaxInit)}
    IN  bases
        \cup {mark_account_completed(b, "e2", code, <<TokenOrder[4]>>) : b \in bases}
        \cup {mark_account_failed(b, "e2", code, "other") : b \in bases}

InitHandlers ==
    /\ invite_code \in HandlerTokens
    /\ state \in HandlerLedgers(invite_code)
    /\ disk = state
    /\ email_file = <<"e1">>
    /\ remaining = <<"e1">>
    /\ idx = 1
    /\ pc = "handler"
    /\ account = "e1"
    /\ success = FALSE
    /\ new_codes = <<>>
    /\ error_type = None
    /\ introduced = 0
    /\ proxy_pool = FALSE
    /\ mark_failed_called = FALSE
    /\ exc = None
    /\ loaded = NotLoaded
    /\ pool = NoPool
    /\ chatgpt = NoChatGPT
    /\ att = NoAttempt

\* line 1094: handle_invalid_invite_code(state, invite_code, browser); success
\* holds the returned bool, new_codes the list the login harvest returned
HandleInvalid ==
    /\ pc = "handler"
    /\ \E generated_codes \in GeneratedLists :
        LET r == handle_invalid_invite_code(state, invite_code, generated_codes)
        IN  /\ state' = r.st
            /\ success' = r.ok
            /\ new_codes' = generated_codes
    /\ error_type' = "invite_code_invalid"
    /\ pc' = "handled"
    /\ UNCHANGED <<pool, chatgpt, att, disk, email_file, remaining, idx, account, invite_code,
                   introduced, proxy_pool, mark_failed_called, exc, loaded>>

\* line 1100: handle_email_registered(state, email, password, invite_code,
\* browser); it returns True iff the login harvest returned codes
HandleEmailRegistered ==
    /\ pc = "handler"
    /\ \E generated_codes \in GeneratedLists :
        /\ state' = handle_email_registered(state, account, invite_code,
                                            generated_codes)
        /\ success' = (generated_codes # <<>>)
        /\ new_codes' = generated_codes
    /\ error_type' = "email_registered"
    /\ pc' = "handled"
    /\ UNCHANGED <<pool, chatgpt, att, disk, email_file, remaining, idx, account, invite_code,
                   introduced, proxy_pool, mark_failed_called, exc, loaded>>

NextHandlers == HandleInvalid \/ HandleEmailRegistered

SpecHandlers == InitHandlers /\ [][NextHandlers]_vars

(***************************************************************************)
(* register.py: register_one_account, with common/outlook_mail.py.         *)
(* SpecAttempt follows one call of register_one_account.  att.mailbox is   *)
(* the mail of EVOMAP_SENDER in the account's mailbox in order of arrival, *)
(* each message [folder, ts, code]: ts the time of arrival in seconds,     *)
(* code the value code_extractor finds in the message (None if it finds    *)
(* none).  att.now is the clock, 0 when the attempt starts.                *)
(***************************************************************************)
\* messages of the sender in the mailbox, those that are there when the
\* attempt starts and those that arrive during it
MaxMail == 2

\* seconds one pass of a poll loop takes: its requests and poll_interval
IterationTime == 15

\* timeout=30 of both poll_for_code calls
OtpTimeout == 30

\* _poll_graph, line 530
FALLBACK_AFTER == 15

\* _poll_imap, line 469: min_timestamp is send_time - 60
WebApiWindow == 60

\* DEFAULT_FOLDERS
folders == <<"Junk", "INBOX">>

\* arrival times of the messages that are in the mailbox at the start:
\* ten minutes and half a minute before
OldStamps == {0 - 600, 0 - 30}

\* the codes of the messages, by position in the mailbox
OtpCodes == <<"100001", "100002", "100003", "100004", "100005", "100006">>

Messages ==
    [folder : Elems(folders), ts : OldStamps, code : Elems(OtpCodes) \cup {None}]

OldMailboxes ==
    {mb \in SeqsUpTo(Messages, MaxMail) :
        /\ \A i \in 1..Len(mb) : mb[i].code \in {None, OtpCodes[i]}
        /\ \A i \in 1..Len(mb), j \in 1..Len(mb) : i < j => mb[i].ts <= mb[j].ts}

\* the ways OutlookMailClient.__init__ can be set up: register.py, lines
\* 641-647, passes web_api_url and leaves use_graph False
MailClients ==
    {[web_api_url |-> TRUE, use_graph |-> FALSE],
     [web_api_url |-> FALSE, use_graph |-> FALSE],
     [web_api_url |-> FALSE, use_graph |-> TRUE]}

Max(S) == CHOOSE x \in S : \A y \in S : y <= x

InFolder(mb, f) == {i \in 1..Len(mb) : mb[i].folder = f}

\* the id an IMAP SEARCH gives message i: its sequence number in its folder
ImapId(mb, i) == Cardinality({j \in 1..i : mb[j].folder = mb[i].folder})

imap_search_by_sender(mb, folder) == {ImapId(mb, i) : i \in InFolder(mb, folder)}

\* _get_known_ids_imap; reached: the folders whose connection did not fail
get_known_ids_imap(mb, reached) ==
    UNION {imap_search_by_sender(mb, f) : f \in reached}

\* graph_search_by_sender: the inbox only, ids that belong to one message
graph_search_by_sender(mb) == InFolder(mb, "INBOX")

\* _get_known_ids_graph; ok: the request did not fail
get_known_ids_graph(mb, ok) == IF ok THEN graph_search_by_sender(mb) ELSE {}

\* the sets get_known_ids can return
get_known_ids(client, mb) ==
    IF client.use_graph
    THEN {get_known_ids_graph(mb, ok) : ok \in BOOLEAN}
    ELSE {get_known_ids_imap(mb, reached) : reached \in SUBSET Elems(folders)}

\* _poll_imap, lines 466-478: the codes the Web API part of a pass can
\* return; reached: the mail boxes whose request did not fail.  The order
\* of the items of one box is the server's.
WebApiCodes(mb, min_timestamp, reached) ==
    LET hits(box) == {i \in InFolder(mb, box) :
                        /\ box \in reached
                        /\ mb[i].ts >= min_timestamp
                        /\ mb[i].code # None}
    IN  IF hits("Junk") # {}
        THEN {mb[i].code : i \in hits("Junk")}
        ELSE {mb[i].code : i \in hits("INBOX")}

\* _poll_imap, lines 490-513: searched folders of `folders` are read before
\* the connection breaks; the new message with the highest id comes first
ImapCode(mb, known_ids, searched) ==
    LET new(f) == {i \in InFolder(mb, f) :
                        ImapId(mb, i) \notin known_ids /\ mb[i].code # None}
    IN  IF searched >= 1 /\ new(folders[1]) # {}
        THEN mb[Max(new(folders[1]))].code
        ELSE IF searched >= 2 /\ new(folders[2]) # {}
        THEN mb[Max(new(folders[2]))].code
        ELSE None

\* _poll_graph, lines 540-551: messages come newest first
GraphNewCode(mb, known_ids) ==
    LET new == {i \in graph_search_by_sender(mb) :
                    i \notin known_ids /\ mb[i].code # None}
    IN  IF new # {} THEN mb[Max(new)].code ELSE None

\* _poll_graph, lines 557-564: the first three known messages
GraphFallbackCode(mb, known_ids) ==
    LET known == {i \in graph_search_by_sender(mb) : i \in known_ids}
        first3 == {i \in known : Cardinality({j \in known : j > i}) < 3}
        with_code == {i \in first3 : mb[i].code # None}
    IN  IF with_code # {} THEN mb[Max(with_code)].code ELSE None

\* one pass of the loop of _poll_imap or _poll_graph:
\* [code |-> what the pass returns (None: it sleeps), fallback_tried |-> ...]
PollPass(a) ==
    IF a.client.use_graph
    THEN LET new_code == GraphNewCode(a.mailbox, a.known_ids)
             fallback == /\ ~a.fallback_tried
                         /\ a.now - a.start >= FALLBACK_AFTER
                         /\ a.known_ids # {}
         IN  {[code |-> None, fallback_tried |-> a.fallback_tried],
              IF new_code # None
              THEN [code |-> new_code, fallback_tried |-> a.fallback_tried]
              ELSE IF fallback
              THEN [code |-> GraphFallbackCode(a.mailbox, a.known_ids),
                    fallback_tried |-> TRUE]
              ELSE [code |-> None, fallback_tried |-> a.fallback_tried]}
    ELSE LET web == IF a.client.web_api_url
                    THEN UNION {WebApiCodes(a.mailbox, a.send_time - WebApiWindow,
                                            reached) :
                                    reached \in SUBSET Elems(folders)}
                    ELSE {}
             imap == {ImapCode(a.mailbox, a.known_ids, searched) :
                        searched \in 0..Len(folders)}
         IN  {[code |-> c, fallback_tried |-> FALSE] : c \in web \cup imap}

\* mail_client and known_ids are read for the last time by the last
\* poll_for_code: the mailbox is not followed after that
MailDone(a) == [a EXCEPT !.mailbox = <<>>, !.known_ids = {}]

\* the except clauses of lines 770-794: the attempt will return
\* (False, [], err) after the finally clause
Caught(a, err) ==
    [MailDone(a) EXCEPT
        !.result = [success |-> FALSE, codes |-> <<>>, error_type |-> err],
        !.pc = "finally"]

BatchVars == <<pool, chatgpt, state, disk, email_file, remaining, idx, pc, account, invite_code,
               success, new_codes, error_type, introduced, proxy_pool,
               mark_failed_called, exc, loaded>>

\* run_batch has popped A for e1 and calls register_one_account, line 1039
InitAttempt ==
    /\ state = DefaultState
    /\ disk = state
    /\ email_file = <<"e1">>
    /\ remaining = <<"e1">>
    /\ idx = 1
    /\ pc = "attempt"
    /\ account = "e1"
    /\ invite_code = "A"
    /\ success = FALSE
    /\ new_codes = <<>>
    /\ error_type = None
    /\ introduced = 1
    /\ proxy_pool = FALSE
    /\ mark_failed_called = FALSE
    /\ exc = None
    /\ loaded = NotLoaded
    /\ pool = NoPool
    /\ chatgpt = NoChatGPT
    /\ \E client \in MailClients, mb \in OldMailboxes :
        att = [pc |-> "create_context",
               context |-> "none",
               ctx2 |-> "none",
               orphans |-> 0,
               harvest_in |-> None,
               client |-> client,
               mailbox |-> mb,
               now |-> 0,
               known_ids |-> {},
               baselines |-> <<>>,
               send_time |-> 0,
               start |-> 0,
               fallback_tried |-> FALSE,
               polls |-> <<>>,
               resend_clicked |-> FALSE,
               otp_code |-> None,
               typed |-> None,
               raised |-> FALSE,
               generated_codes |-> <<>>,
               result |-> [success |-> FALSE, codes |-> <<>>, error_type |-> None]]

\* line 600, outside the try: create_context returns, or one of its calls
\* raises; when a call after browser.new_context raises, the new context
\* stays open and nothing refers to it
AttCreateContext ==
    /\ att.pc = "create_context"
    /\ \/ /\ att' = [att EXCEPT !.context = "open", !.pc = "invite_code"]
          /\ UNCHANGED exc
       \/ /\ \E made \in {0, 1} :
                att' = [att EXCEPT !.orphans = @ + made, !.pc = "raised"]
          /\ exc' = "Error"
    /\ UNCHANGED <<pool, chatgpt, state, disk, email_file, remaining, idx, pc, account,
                   invite_code, success, new_codes, error_type, introduced,
                   proxy_pool, mark_failed_called, loaded>>

\* step 1, lines 602-637
AttInviteCode ==
    /\ att.pc = "invite_code"
    /\ \/ att' = [att EXCEPT !.pc = "known_ids"]
       \/ \E err \in {"invite_code_invalid", "server_error", "other"} :
            att' = Caught(att, err)
    /\ UNCHANGED BatchVars

\* lines 641-648: known_ids = mail_client.get_known_ids(), before the
\* address is typed and Send Code is clicked
AttKnownIds ==
    /\ att.pc = "known_ids"
    /\ \/ \E ids \in get_known_ids(att.client, att.mailbox) :
            att' = [att EXCEPT !.known_ids = ids,
                               !.baselines = Append(@, Len(att.mailbox)),
                               !.pc = "send_code"]
       \/ att' = Caught(att, "other")
    /\ UNCHANGED BatchVars

\* lines 650-657
AttSendCode ==
    /\ att.pc = "send_code"
    /\ \/ att' = [att EXCEPT !.send_time = att.now, !.pc = "code_input"]
       \/ att' = Caught(att, "other")
    /\ UNCHANGED BatchVars

\* lines 659-686: the code input appears, or the page shows an error, or 45
\* seconds pass; then the first poll_for_code starts
AttCodeInput ==
    /\ att.pc = "code_input"
    /\ \/ att' = [att EXCEPT !.start = att.now, !.fallback_tried = FALSE,
                             !.pc = "poll"]
       \/ \E err \in {"email_registered", "rate_limit", "other"} :
            att' = Caught(att, err)
    /\ UNCHANGED BatchVars

\* a message of the sender arrives after Send Code was clicked
MailArrives ==
    /\ att.pc \in {"code_input", "poll", "resend"}
    /\ Len(att.mailbox) < MaxMail
    /\ \E f \in Elems(folders), c \in {None, OtpCodes[Len(att.mailbox) + 1]} :
        att' = [att EXCEPT !.mailbox =
                    Append(@, [folder |-> f, ts |-> att.now, code |-> c])]
    /\ UNCHANGED BatchVars

\* one pass of the while loop of _poll_imap (461-516) or _poll_graph
\* (534-570): it returns a code, or sleeps
AttPoll ==
    /\ att.pc = "poll"
    /\ att.now - att.start < OtpTimeout
    /\ \E r \in PollPass(att) :
        att' = IF r.code # None
               THEN [att EXCEPT !.otp_code = r.code,
                                !.polls = Append(@, r.code),
                                !.pc = "submit_otp"]
               ELSE [att EXCEPT !.now = @ + IterationTime,
                                !.fallback_tried = r.fallback_tried]
    /\ UNCHANGED BatchVars

\* the loop ends, lines 518-522 and 572-573: poll_for_code returns None
AttPollTimeout ==
    /\ att.pc = "poll"
    /\ att.now - att.start >= OtpTimeout
    /\ att' = [att EXCEPT !.otp_code = None,
                          !.polls = Append(@, None),
                          !.pc = IF Len(att.polls) = 0 THEN "resend"
                                 ELSE "submit_otp"]
    /\ UNCHANGED BatchVars

\* lines 695-712: the resend button is clicked if there is one, known_ids is
\* taken again, and the second poll_for_code starts
AttResend ==
    /\ att.pc = "resend"
    /\ \/ \E button \in BOOLEAN,
             ids \in get_known_ids(att.client, att.mailbox) :
            att' = [att EXCEPT !.resend_clicked = button,
                               !.known_ids = ids,
                               !.baselines = Append(@, Len(att.mailbox)),
                               !.send_time = att.now,
                               !.start = att.now,
                               !.fallback_tried = FALSE,
                               !.pc = "poll"]
       \/ att' = Caught(att, "other")
    /\ UNCHANGED BatchVars

\* AttSubmitOtp as it would be without the test of lines 714-715
AttSubmitOtp_no_test ==
    /\ att.pc = "submit_otp"
    /\ \/ att' = [MailDone(att) EXCEPT !.typed = att.otp_code,
                                       !.pc = "create_account"]
       \/ att' = Caught(att, "other")
    /\ UNCHANGED BatchVars

\* lines 714-724: no code after both rounds raises; else the code is typed
\* and submitted
AttSubmitOtp ==
    /\ att.pc = "submit_otp"
    /\ IF att.otp_code = None
       THEN att' = Caught(att, "other")
       ELSE \/ att' = [MailDone(att) EXCEPT !.typed = att.otp_code,
                                            !.pc = "create_account"]
            \/ att' = Caught(att, "other")
    /\ UNCHANGED BatchVars

\* step 4, lines 726-753
AttCreateAccount ==
    /\ att.pc = "create_account"
    /\ \/ att' = [att EXCEPT !.pc = "close_context"]
       \/ att' = Caught(att, "other")
    /\ UNCHANGED BatchVars

\* line 758: context.close(); a close that raises leaves no usable context
AttCloseContext ==
    /\ att.pc = "close_context"
    /\ \/ att' = [att EXCEPT !.context = "closed", !.pc = "create_ctx2"]
       \/ att' = Caught([att EXCEPT !.context = "closed"], "other")
    /\ UNCHANGED BatchVars

\* line 761, before the inner try: ctx2, page2 = create_context(browser)
AttCreateCtx2 ==
    /\ att.pc = "create_ctx2"
    /\ \/ att' = [att EXCEPT !.ctx2 = "open", !.pc = "harvest"]
       \/ \E made \in {0, 1} :
            att' = Caught([att EXCEPT !.orphans = @ + made], "other")
    /\ UNCHANGED BatchVars

\* what _login_and_generate_codes can return: the codes of the page of one
\* account, none to MaxGen of them
HarvestLists == {Window(1, n) : n \in 0..MaxGen}

\* AttHarvest as it would be without the try and finally of lines 762-765
AttHarvest_no_finally ==
    /\ att.pc = "harvest"
    /\ \/ \E codes \in HarvestLists :
            att' = [att EXCEPT !.harvest_in = "ctx2",
                               !.generated_codes = codes,
                               !.pc = "close_ctx2"]
       \/ att' = Caught([att EXCEPT !.harvest_in = "ctx2", !.raised = TRUE],
                        "other")
    /\ UNCHANGED BatchVars

\* line 763: _login_and_generate_codes(page2, ctx2, ...) returns the codes
\* it found or raises; the finally clause comes next either way
AttHarvest ==
    /\ att.pc = "harvest"
    /\ \/ \E codes \in HarvestLists :
            att' = [att EXCEPT !.harvest_in = "ctx2",
                               !.generated_codes = codes,
                               !.pc = "close_ctx2"]
       \/ att' = [att EXCEPT !.harvest_in = "ctx2",
                             !.raised = TRUE,
                             !.pc = "close_ctx2"]
    /\ UNCHANGED BatchVars

\* lines 764-768: ctx2.close(), then the exception goes on to line 790 or
\* the attempt will return (True, generated_codes, None)
AttCloseCtx2 ==
    /\ att.pc = "close_ctx2"
    /\ LET closed == [att EXCEPT !.ctx2 = "closed"]
       IN  IF att.raised
           THEN att' = Caught(closed, "other")
           ELSE \/ att' = [closed EXCEPT
                             !.result = [success |-> TRUE,
                                         codes |-> att.generated_codes,
                                         error_type |-> None],
                             !.pc = "finally"]
                \/ att' = Caught(closed, "other")
    /\ UNCHANGED BatchVars

\* lines 795-799: context.close() again, exceptions swallowed
AttFinally ==
    /\ att.pc = "finally"
    /\ att' = [att EXCEPT !.context = "closed", !.pc = "return"]
    /\ UNCHANGED BatchVars

\* the return statements of lines 768-794, received at line 1039
AttReturn ==
    /\ att.pc = "return"
    /\ success' = att.result.success
    /\ new_codes' = att.result.codes
    /\ error_type' = att.result.error_type
    /\ att' = [att EXCEPT !.pc = "returned"]
    /\ UNCHANGED <<pool, chatgpt, state, disk, email_file, remaining, idx, pc, account,
                   invite_code, introduced, proxy_pool, mark_failed_called,
                   exc, loaded>>

\* the statements of register_one_account
AttStep ==
    \/ AttCreateContext
    \/ AttInviteCode
    \/ AttKnownIds
    \/ AttSendCode
    \/ AttCodeInput
    \/ AttPoll
    \/ AttPollTimeout
    \/ AttResend
    \/ AttSubmitOtp
    \/ AttCreateAccount
    \/ AttCloseContext
    \/ AttCreateCtx2
    \/ AttHarvest
    \/ AttCloseCtx2
    \/ AttFinally
    \/ AttReturn

NextAttempt == AttStep \/ MailArrives

\* register_one_account runs in one thread and none of its statements waits
\* without a timeout, so a statement that can run does
SpecAttempt == InitAttempt /\ [][NextAttempt]_vars /\ WF_vars(AttStep)

(***************************************************************************)
(* register_one_account, steps 1 and 2 in detail: what the page shows      *)
(* after "Verify Invite Code" and after "Send Code" and how the text is    *)
(* classified.  A page text is the set of the tested phrases that occur in *)
(* body.inner_text().lower(): `keyword in page_text` is membership.        *)
(***************************************************************************)
MaxWords == 2      \* tested phrases that one page text holds

send_code_timeout == 45

\* line 628
InvalidWords == {"invalid", "expired", "used", "not found"}

\* line 632
ServerWords == {"500", "error"}

\* line 674
RegisteredWords == {"already registered", "already exists", "email is already"}

\* line 678
ThrottleWords == {"too many", "rate limit", "slow down"}

PageTexts ==
    {t \in SUBSET (InvalidWords \cup ServerWords \cup RegisteredWords \cup ThrottleWords)
        : Cardinality(t) <= MaxWords}

\* lines 619-636 with the except clauses of lines 766-790: None when the
\* Email input became visible, else the error type returned
InviteCodeStep(email_input_visible, page_text) ==
    IF email_input_visible THEN None
    ELSE IF page_text \cap InvalidWords # {} THEN "invite_code_invalid"
    ELSE IF page_text \cap ServerWords # {} THEN "server_error"
    ELSE "other"

\* one pass of the loop of lines 665-682: None when the code input is
\* visible, "wait" when the pass ends in time.sleep(1)
SendCodePass(code_input_visible, body_text) ==
    IF code_input_visible THEN None
    ELSE IF body_text \cap RegisteredWords # {} THEN "email_registered"
    ELSE IF body_text \cap ThrottleWords # {} THEN "rate_limit"
    ELSE "wait"

InitClassify ==
    /\ state = DefaultState
    /\ disk = state
    /\ email_file = <<"e1">>
    /\ remaining = <<"e1">>
    /\ idx = 1
    /\ pc = "attempt"
    /\ account = "e1"
    /\ invite_code = "A"
    /\ success = FALSE
    /\ new_codes = <<>>
    /\ error_type = None
    /\ introduced = 1
    /\ proxy_pool = FALSE
    /\ mark_failed_called = FALSE
    /\ exc = None
    /\ loaded = NotLoaded
    /\ pool = NoPool
    /\ chatgpt = NoChatGPT
    /\ att = [pc |-> "invite_code", visible |-> FALSE, page_text |-> {},
              elapsed |-> 0]

\* lines 611-636: the invite code is submitted and the page answers
ClassifyInviteCode ==
    /\ att.pc = "invite_code"
    /\ \E visible \in BOOLEAN, page_text \in PageTexts :
        LET r == InviteCodeStep(visible, page_text)
        IN  /\ att' = [att EXCEPT !.pc = IF r = None THEN "send_code" ELSE "returned",
                                  !.visible = visible,
                                  !.page_text = page_text]
            /\ error_type' = r
    /\ UNCHANGED <<pool, chatgpt, state, disk, email_file, remaining, idx, pc, account,
                   invite_code, success, new_codes, introduced, proxy_pool,
                   mark_failed_called, exc, loaded>>

\* lines 665-682: one pass of the loop after Send Code
ClassifySendCode ==
    /\ att.pc = "send_code"
    /\ att.elapsed < send_code_timeout
    /\ \E visible \in BOOLEAN, body_text \in PageTexts :
        LET r == SendCodePass(visible, body_text)
        IN  /\ att' = [pc |-> IF r = None THEN "poll"
                              ELSE IF r = "wait" THEN "send_code"
                              ELSE "returned",
                       visible |-> visible,
                       page_text |-> body_text,
                       elapsed |-> IF r = "wait" THEN att.elapsed + 1
                                   ELSE att.elapsed]
            /\ error_type' = IF r = "wait" THEN None ELSE r
    /\ UNCHANGED <<pool, chatgpt, state, disk, email_file, remaining, idx, pc, account,
                   invite_code, success, new_codes, introduced, proxy_pool,
                   mark_failed_called, exc, loaded>>

\* lines 684-688: 45 s without the code input and without a tested phrase
ClassifySendCodeTimeout ==
    /\ att.pc = "send_code"
    /\ att.elapsed >= send_code_timeout
    /\ att' = [att EXCEPT !.pc = "returned"]
    /\ error_type' = "other"
    /\ UNCHANGED <<pool, chatgpt, state, disk, email_file, remaining, idx, pc, account,
                   invite_code, success, new_codes, introduced, proxy_pool,
                   mark_failed_called, exc, loaded>>

NextClassify == ClassifyInviteCode \/ ClassifySendCode \/ ClassifySendCodeTimeout

SpecClassify == InitClassify /\ [][NextClassify]_vars

(***************************************************************************)
(* common/proxy_pool.py: one ProxyPool instance used by one thread.        *)
(* proxy_stats keeps the two entries that decisions read, failures and     *)
(* last_failed; successes and last_used are written and read by no test of *)
(* availability.  The pick among the available addresses is any member of  *)
(* the list: random.choice of the default strategy, of which the           *)
(* sequential and least_used picks are special cases.  The clock advances  *)
(* in steps of half a retry interval.                                      *)
(***************************************************************************)
MaxFailures == 2   \* max_failures of the instance is one of 1..MaxFailures
MaxMarks == 2      \* calls of mark_failed that are followed
MaxClock == 2      \* steps of the clock that are followed

DEFAULT_RETRY_INTERVAL == 300

ClockStep == DEFAULT_RETRY_INTERVAL \div 2

\* the static list of a normal pool, the answers of the proxy API (None: no
\* api_url, an error or no proxy in the response) and the nodes of the group
ProxyLists == {<<>>, <<"p1">>, <<"p1", "p2">>}

ApiAnswers == {None, "p1", "p3"}

NodeLists == {<<>>, <<"n1", "n2">>}

\* _init_proxy_stats
init_proxy_stats(proxy_stats, proxy) ==
    IF proxy \in DOMAIN proxy_stats
    THEN proxy_stats
    ELSE Put(proxy_stats, proxy, [failures |-> 0, last_failed |-> 0])

RECURSIVE InitAllStats(_, _)
InitAllStats(proxy_stats, names) ==
    IF names = <<>> THEN proxy_stats
    ELSE InitAllStats(init_proxy_stats(proxy_stats, Head(names)), Tail(names))

\* _is_available, its result: FALSE iff the failure count has reached
\* max_failures and the last failure is less than retry_interval ago
is_available(p, proxy) ==
    LET stats == Get(p.proxy_stats, proxy, [failures |-> 0, last_failed |-> 0])
    IN  ~(/\ stats.failures >= p.max_failures
          /\ p.now - stats.last_failed < DEFAULT_RETRY_INTERVAL)

\* _is_available, its effect: the count of an address whose interval has
\* passed is set to 0 (on a temporary dict when the address has no entry)
after_is_available(p, proxy) ==
    IF /\ proxy \in DOMAIN p.proxy_stats
       /\ p.proxy_stats[proxy].failures >= p.max_failures
       /\ p.now - p.proxy_stats[proxy].last_failed >= DEFAULT_RETRY_INTERVAL
    THEN [p EXCEPT !.proxy_stats[proxy].failures = 0]
    ELSE p

\* [x for x in names if self._is_available(x)]: the list and the pool after
RECURSIVE FilterAvailable(_, _)
FilterAvailable(p, names) ==
    IF names = <<>>
    THEN [list |-> <<>>, p |-> p]
    ELSE LET rest == FilterAvailable(after_is_available(p, Head(names)), Tail(names))
         IN  [list |-> IF is_available(p, Head(names))
                       THEN <<Head(names)>> \o rest.list
                       ELSE rest.list,
              p |-> rest.p]

\* mark_failed in normal mode, lines 500-509
mark_failed_normal(p, proxy) ==
    LET stats == init_proxy_stats(p.proxy_stats, proxy)
    IN  [p EXCEPT !.proxy_stats =
            [stats EXCEPT ![proxy] = [failures |-> @.failures + 1,
                                      last_failed |-> p.now]],
                  !.marks = @ + 1]

\* _fetch_from_api, lines 354-376: answer is what the extractor found
fetch_from_api(p, answer) ==
    IF ~p.api_url \/ answer = None
    THEN [proxy |-> None, p |-> p]
    ELSE [proxy |-> answer,
          p |-> IF InSeq(answer, p.proxies)
                THEN p
                ELSE [p EXCEPT !.proxies = Append(@, answer),
                               !.proxy_stats = init_proxy_stats(@, answer)]]

InitProxy ==
    /\ state = DefaultState
    /\ disk = state
    /\ email_file = <<"e1">>
    /\ remaining = <<>>
    /\ idx = 0
    /\ pc = "start"
    /\ account = None
    /\ invite_code = None
    /\ success = FALSE
    /\ new_codes = <<>>
    /\ error_type = None
    /\ introduced = 0
    /\ proxy_pool = TRUE
    /\ mark_failed_called = FALSE
    /\ exc = None
    /\ loaded = NotLoaded
    /\ att = NoAttempt
    /\ chatgpt = NoChatGPT
    /\ \E max_failures \in 1..MaxFailures :
        \/ \E proxies \in ProxyLists, api_url \in BOOLEAN, auto_check \in BOOLEAN :
            pool = [mode |-> "normal",
                    proxies |-> proxies,
                    api_url |-> api_url,
                    mihomo_nodes |-> <<>>,
                    current_mihomo_node |-> None,
                    proxy_stats |-> InitAllStats(EmptyDict, proxies),
                    max_failures |-> max_failures,
                    auto_switch |-> TRUE,
                    auto_check |-> auto_check,
                    now |-> 0,
                    marks |-> 0,
                    pc |-> "idle",
                    op |-> None,
                    returned |-> None,
                    confirmed |-> FALSE,
                    requested |-> None]
        \* _init_mihomo: the nodes of the group and the node the controller
        \* reports as selected (None when the request fails)
        \/ \E nodes \in NodeLists, auto_switch \in BOOLEAN :
           \E current \in Elems(nodes) \cup {None} :
            pool = [mode |-> "mihomo",
                    proxies |-> <<>>,
                    api_url |-> FALSE,
                    mihomo_nodes |-> nodes,
                    current_mihomo_node |-> current,
                    proxy_stats |-> InitAllStats(EmptyDict, nodes),
                    max_failures |-> max_failures,
                    auto_switch |-> auto_switch,
                    auto_check |-> FALSE,
                    now |-> 0,
                    marks |-> 0,
                    pc |-> "idle",
                    op |-> None,
                    returned |-> None,
                    confirmed |-> FALSE,
                    requested |-> None]

ProxyFrame ==
    UNCHANGED <<chatgpt, att, state, disk, email_file, remaining, idx, pc, account,
                invite_code, success, new_codes, error_type, introduced,
                proxy_pool, mark_failed_called, exc, loaded>>

\* time.time() moves on between two calls
Tick ==
    /\ pool.mode # "none"
    /\ pool.now < MaxClock * ClockStep
    /\ pool' = [pool EXCEPT !.now = @ + ClockStep]
    /\ ProxyFrame

\* get_proxy in normal mode, lines 446-479: one invocation.  With
\* auto_check a failed health check marks the pick failed and get_proxy
\* calls itself (pc stays "get_proxy"); the result of the outer call is the
\* result of the last invocation.
GetProxy ==
    /\ pool.mode = "normal"
    /\ \E answer \in ApiAnswers, check_ok \in BOOLEAN :
        LET f == FilterAvailable(pool, pool.proxies)
            api == fetch_from_api(f.p, answer)
            available == IF f.list # <<>> THEN f.list
                         ELSE IF api.proxy # None THEN <<api.proxy>>
                         ELSE <<>>
            p1 == IF f.list # <<>> THEN f.p ELSE api.p
        IN  IF available = <<>>
            THEN pool' = [p1 EXCEPT !.pc = "idle", !.op = "get_proxy",
                                    !.returned = None]
            ELSE \E proxy \in Elems(available) :
                    IF p1.auto_check /\ ~check_ok
                    THEN /\ p1.marks < MaxMarks
                         /\ pool' = [mark_failed_normal(p1, proxy) EXCEPT
                                        !.pc = "get_proxy", !.op = "get_proxy",
                                        !.returned = None]
                    ELSE pool' = [p1 EXCEPT !.pc = "idle", !.op = "get_proxy",
                                            !.returned = proxy]
    /\ ProxyFrame

\* get_proxy in Mihomo mode, lines 436-444: the fixed address of the local
\* port; an unknown current node is asked from the controller
GetProxyMihomo ==
    /\ pool.mode = "mihomo"
    /\ \E now_node \in Elems(pool.mihomo_nodes) \cup {None} :
        pool' = [pool EXCEPT
                    !.current_mihomo_node = IF @ = None THEN now_node ELSE @,
                    !.op = "get_proxy",
                    !.returned = "http://127.0.0.1:7890"]
    /\ ProxyFrame

\* _switch_mihomo_node, lines 404-432: next_node is the node asked of the
\* controller, confirmed is what mihomo_controller.switch_node returns
switch_mihomo_node(p, next_node, confirmed) ==
    IF confirmed
    THEN [p EXCEPT !.current_mihomo_node = next_node, !.confirmed = TRUE,
                   !.requested = next_node]
    ELSE [p EXCEPT !.confirmed = FALSE, !.requested = next_node]

\* _switch_mihomo_node as it would be without `n != self.current_mihomo_node`
AvailableNodes_with_current(p) ==
    LET f == FilterAvailable(p, p.mihomo_nodes)
    IN  [list |-> f.list, p |-> f.p]

\* the nodes _switch_mihomo_node can pick, and the pool after the tests
AvailableNodes(p) ==
    LET f == FilterAvailable(p, p.mihomo_nodes)
    IN  [list |-> SelectSeq(f.list, LAMBDA n : n # p.current_mihomo_node),
         p |-> f.p]

\* mark_failed, lines 481-509; the argument, used in normal mode only, is an
\* address of the list, as get_proxy returned it
MarkFailed ==
    /\ pool.mode \in {"normal", "mihomo"}
    /\ pool.pc = "idle"
    /\ pool.marks < MaxMarks
    /\ IF pool.mode = "normal"
       THEN \E proxy \in Elems(pool.proxies) :
                pool' = [mark_failed_normal(pool, proxy) EXCEPT
                            !.op = "mark_failed", !.confirmed = FALSE, !.requested = None]
       ELSE IF pool.current_mihomo_node = None
       THEN pool' = [pool EXCEPT !.op = "mark_failed", !.confirmed = FALSE, !.requested = None,
                                 !.marks = @ + 1]
       ELSE LET node == pool.current_mihomo_node
                marked == [mark_failed_normal(pool, node) EXCEPT
                                !.op = "mark_failed", !.confirmed = FALSE, !.requested = None]
            IN  IF marked.auto_switch
                    /\ marked.proxy_stats[node].failures >= marked.max_failures
                THEN LET a == AvailableNodes(marked)
                     IN  IF a.list = <<>>
                         THEN pool' = a.p
                         ELSE \E next_node \in Elems(a.list), confirmed \in BOOLEAN :
                                pool' = switch_mihomo_node(a.p, next_node, confirmed)
                ELSE pool' = marked
    /\ ProxyFrame

\* mark_success, lines 511-524
MarkSuccess ==
    /\ pool.mode \in {"normal", "mihomo"}
    /\ pool.pc = "idle"
    /\ IF pool.mode = "normal"
       THEN \E proxy \in Elems(pool.proxies) :
                pool' = [pool EXCEPT
                            !.proxy_stats = [init_proxy_stats(@, proxy)
                                                EXCEPT ![proxy].failures = 0],
                            !.op = "mark_success", !.confirmed = FALSE, !.requested = None]
       ELSE IF pool.current_mihomo_node = None
       THEN pool' = [pool EXCEPT !.op = "mark_success", !.confirmed = FALSE, !.requested = None]
       ELSE pool' = [pool EXCEPT
                        !.proxy_stats =
                            [init_proxy_stats(@, pool.current_mihomo_node)
                                EXCEPT ![pool.current_mihomo_node].failures = 0],
                        !.op = "mark_success", !.confirmed = FALSE, !.requested = None]
    /\ ProxyFrame

\* switch_node, lines 526-546: to the named node, or with no name through
\* _switch_mihomo_node
SwitchNode ==
    /\ pool.mode = "mihomo"
    /\ pool.pc = "idle"
    /\ \E confirmed \in BOOLEAN :
        \/ \E node_name \in Elems(pool.mihomo_nodes) :
            pool' = [switch_mihomo_node(pool, node_name, confirmed)
                        EXCEPT !.op = "switch_node_named"]
        \/ LET a == AvailableNodes(pool)
           IN  IF a.list = <<>>
               THEN pool' = [a.p EXCEPT !.op = "switch_node", !.confirmed = FALSE, !.requested = None]
               ELSE \E next_node \in Elems(a.list) :
                        pool' = [switch_mihomo_node(a.p, next_node, confirmed)
                                    EXCEPT !.op = "switch_node"]
    /\ ProxyFrame

NextProxy ==
    \/ Tick
    \/ GetProxy
    \/ GetProxyMihomo
    \/ MarkFailed
    \/ MarkSuccess
    \/ SwitchNode

SpecProxy == InitProxy /\ [][NextProxy]_vars

(***************************************************************************)
(* projects/chatgpt/register.py: run_batch and its worker threads.  Task i *)
(* is the i-th parsed line of the input file; its future is done when      *)
(* _register_one has returned.  The line a task writes holds its email and *)
(* a password generated for this task and is identified by the task's      *)
(* number; 0 is a line that was in the output file before the batch.       *)
(* print is taken not to raise, so _register_one always returns a tuple.   *)
(***************************************************************************)
MaxTasks == 3      \* parsed lines of the input file

InitChatGPT ==
    /\ state = DefaultState
    /\ disk = state
    /\ email_file = <<"e1">>
    /\ remaining = <<>>
    /\ idx = 0
    /\ pc = "start"
    /\ account = None
    /\ invite_code = None
    /\ success = FALSE
    /\ new_codes = <<>>
    /\ error_type = None
    /\ introduced = 0
    /\ proxy_pool = FALSE
    /\ mark_failed_called = FALSE
    /\ exc = None
    /\ loaded = NotLoaded
    /\ att = NoAttempt
    /\ pool = NoPool
    /\ \E total \in 1..MaxTasks, max_workers \in 1..MaxTasks,
          output_file \in {<<>>, <<0>>} :
        chatgpt = [pc |-> "collect",
                   total |-> total,
                   actual_workers |-> Min(max_workers, total),
                   task |-> [i \in 1..total |-> "queued"],
                   file_lock |-> 0,
                   output_file |-> output_file,
                   counted |-> {},
                   success_count |-> 0,
                   fail_count |-> 0]

ChatGPTFrame ==
    UNCHANGED <<pool, att, state, disk, email_file, remaining, idx, pc, account,
                invite_code, success, new_codes, error_type, introduced,
                proxy_pool, mark_failed_called, exc, loaded>>

\* the tasks a worker thread of the executor is running
Running == {i \in 1..chatgpt.total : chatgpt.task[i] \notin {"queued", "ok", "fail"}}

\* ThreadPoolExecutor(max_workers=actual_workers): a free worker takes the
\* next submitted task; _register_one, lines 426-443, up to run_register
WorkerStart ==
    /\ chatgpt.pc = "collect"
    /\ Cardinality(Running) < chatgpt.actual_workers
    /\ \E i \in 1..chatgpt.total :
        /\ chatgpt.task[i] = "queued"
        /\ \A j \in 1..(i - 1) : chatgpt.task[j] # "queued"
        /\ chatgpt' = [chatgpt EXCEPT !.task[i] = "run_register"]
    /\ ChatGPTFrame

\* line 443: run_register returns, or raises and the except clause of
\* lines 454-458 returns (False, email, str(e))
RunRegister ==
    /\ \E i \in 1..chatgpt.total :
        /\ chatgpt.task[i] = "run_register"
        /\ \E raised \in BOOLEAN :
            chatgpt' = [chatgpt EXCEPT !.task[i] =
                            IF raised THEN "fail" ELSE "want_lock"]
    /\ ChatGPTFrame

\* line 446 as it would be if _file_lock could be entered while it is held
AcquireFileLock_no_wait ==
    /\ \E i \in 1..chatgpt.total :
        /\ chatgpt.task[i] = "want_lock"
        /\ chatgpt' = [chatgpt EXCEPT !.task[i] = "open", !.file_lock = i]
    /\ ChatGPTFrame

\* line 446: with _file_lock
AcquireFileLock ==
    /\ \E i \in 1..chatgpt.total :
        /\ chatgpt.task[i] = "want_lock"
        /\ chatgpt.file_lock = 0
        /\ chatgpt' = [chatgpt EXCEPT !.task[i] = "open", !.file_lock = i]
    /\ ChatGPTFrame

\* line 447: open(output_file, "a"); an OSError leaves the with block,
\* which releases the lock, and is caught at line 454
OpenFile ==
    /\ \E i \in 1..chatgpt.total :
        /\ chatgpt.task[i] = "open"
        /\ \E raised \in BOOLEAN :
            chatgpt' = IF raised
                       THEN [chatgpt EXCEPT !.task[i] = "fail", !.file_lock = 0]
                       ELSE [chatgpt EXCEPT !.task[i] = "write"]
    /\ ChatGPTFrame

\* lines 447-448: out.write(line) fills the buffer of the file object and
\* the end of the inner with block closes the file, which appends the
\* buffer to the output file
WriteLine ==
    /\ \E i \in 1..chatgpt.total :
        /\ chatgpt.task[i] = "write"
        /\ chatgpt' = [chatgpt EXCEPT !.task[i] = "release",
                                      !.output_file = Append(@, i)]
    /\ ChatGPTFrame

\* the end of the with block of line 446 releases _file_lock; lines 450-452
ReleaseFileLock ==
    /\ \E i \in 1..chatgpt.total :
        /\ chatgpt.task[i] = "release"
        /\ chatgpt' = [chatgpt EXCEPT !.task[i] = "ok", !.file_lock = 0]
    /\ ChatGPTFrame

\* lines 520-526: as_completed yields a finished future once
Collect ==
    /\ chatgpt.pc = "collect"
    /\ \E i \in 1..chatgpt.total :
        /\ i \notin chatgpt.counted
        /\ chatgpt.task[i] \in {"ok", "fail"}
        /\ chatgpt' = [chatgpt EXCEPT
                        !.counted = @ \cup {i},
                        !.success_count = IF chatgpt.task[i] = "ok" THEN @ + 1 ELSE @,
                        !.fail_count = IF chatgpt.task[i] = "ok" THEN @ ELSE @ + 1]
    /\ ChatGPTFrame

\* lines 531-539: every future was yielded, the executor is shut down
BatchFinished ==
    /\ chatgpt.pc = "collect"
    /\ chatgpt.counted = 1..chatgpt.total
    /\ chatgpt' = [chatgpt EXCEPT !.pc = "done"]
    /\ ChatGPTFrame

NextChatGPT ==
    \/ WorkerStart
    \/ RunRegister
    \/ AcquireFileLock
    \/ OpenFile
    \/ WriteLine
    \/ ReleaseFileLock
    \/ Collect
    \/ BatchFinished

SpecChatGPT == InitChatGPT /\ [][NextChatGPT]_vars

(***************************************************************************)
(* output/state.json as a file: json.dump, json.load, load_state and the   *)
(* steps of save_state.  In SpecFile `disk` is the JSON document in the    *)
(* file (or the empty or missing file), `state` the dict of the process    *)
(* and `loaded` what a reader of the file got from load_state().           *)
(***************************************************************************)
\* JSON values
JNull == [null |-> TRUE]

JStr(x) == [str |-> x]

JNum(n) == [num |-> n]

JBool(b) == [bool |-> b]

JArr(s) == [arr |-> [i \in 1..Len(s) |-> JStr(s[i])]]

\* the keys of the ledger whose values are lists of strings
ListKeys == {"invite_pool", "output_codes", "completed_emails", "failed_emails",
             "invite_codes_generated"}

\* json.dump of one entry of an account or history record
JDumpField(k, v) ==
    IF k \in ListKeys THEN JArr(v)
    ELSE IF k = "codes_generation_complete" THEN JBool(v)
    ELSE IF v = None THEN JNull
    ELSE JStr(v)

\* json.dump of one top-level entry of the state dict
JDumpEntry(k, v) ==
    IF k \in ListKeys THEN JArr(v)
    ELSE IF k = "statistics" THEN [obj |-> [n \in DOMAIN v |-> JNum(v[n])]]
    ELSE IF k \in {"accounts", "invite_codes_history"}
    THEN [obj |-> [e \in DOMAIN v |->
                [obj |-> [f \in DOMAIN v[e] |-> JDumpField(f, v[e][f])]]]]
    ELSE JStr(v)

\* json.dump(state, f), line 159
json_dump(st) == [obj |-> [k \in DOMAIN st |-> JDumpEntry(k, st[k])]]

\* json.load(f), line 118, of a complete document
RECURSIVE json_load(_)
json_load(v) ==
    IF "null" \in DOMAIN v THEN None
    ELSE IF "str" \in DOMAIN v THEN v.str
    ELSE IF "num" \in DOMAIN v THEN v.num
    ELSE IF "bool" \in DOMAIN v THEN v.bool
    ELSE IF "arr" \in DOMAIN v THEN [i \in DOMAIN v.arr |-> json_load(v.arr[i])]
    ELSE [k \in DOMAIN v.obj |-> json_load(v.obj[k])]

\* output/state.json does not exist
NoFile == [missing |-> TRUE]

\* output/state.json after open(STATE_FILE, "w") and before json.dump
EmptyFile == [empty |-> TRUE]

\* the value of `state` before the process has called load_state
NoState == [unloaded |-> TRUE]

\* what load_state gives a reader when json.load raises
JSONDecodeError == [raised |-> "JSONDecodeError"]

\* load_state as it would be if every file were taken for the old format
load_state_always_legacy(file) ==
    IF file = NoFile
    THEN DefaultState
    ELSE LET st == json_load(file)
         IN  [version |-> "1.0",
              invite_pool |-> Get(st, "invite_pool", <<>>),
              output_codes |-> Get(st, "output_codes", <<>>),
              completed_emails |-> Get(st, "completed_emails", <<>>),
              failed_emails |-> Get(st, "failed_emails", <<>>)]

\* load_state, lines 114-144, on a missing file or a complete document
load_state(file) ==
    IF file = NoFile
    THEN DefaultState
    ELSE LET st == json_load(file)
         IN  IF "version" \notin DOMAIN st
             THEN [version |-> "1.0",
                   invite_pool |-> Get(st, "invite_pool", <<>>),
                   output_codes |-> Get(st, "output_codes", <<>>),
                   completed_emails |-> Get(st, "completed_emails", <<>>),
                   failed_emails |-> Get(st, "failed_emails", <<>>)]
             ELSE st

\* start.py, check_evomap_state, lines 181-191: the dict it dumps
CheckEvomapStates ==
    {[version |-> "2.0",
      invite_pool |-> p,
      output_codes |-> <<>>,
      accounts |-> EmptyDict,
      invite_codes_history |-> EmptyDict] : p \in {<<>>, <<TokenOrder[1]>>}}

\* files written before the version key existed, lines 120-128
OldFormatStates ==
    {[invite_pool |-> p, output_codes |-> <<>>, completed_emails |-> c,
      failed_emails |-> <<>>] : p \in InitialPools, c \in SeqsUpTo({"e1"}, 1)}
        \cup {[invite_pool |-> p] : p \in InitialPools}

\* the files a process can find
PersistedFiles ==
    {NoFile} \cup {json_dump(st) :
                    st \in InitialLedgers \cup CheckEvomapStates \cup OldFormatStates}

InitFile ==
    /\ disk \in PersistedFiles
    /\ state = NoState
    /\ email_file = <<"e1">>
    /\ remaining = <<>>
    /\ idx = 0
    /\ pc = "file"
    /\ account = None
    /\ invite_code = None
    /\ success = FALSE
    /\ new_codes = <<>>
    /\ error_type = None
    /\ introduced = 0
    /\ proxy_pool = FALSE
    /\ mark_failed_called = FALSE
    /\ exc = None
    /\ loaded = NotLoaded
    /\ pool = NoPool
    /\ chatgpt = NoChatGPT
    /\ att = NoAttempt

\* state = load_state(), lines 971 and 1243
FileLoadState ==
    /\ pc = "file"
    /\ state' = load_state(disk)
    /\ pc' = "ledger"
    /\ UNCHANGED <<pool, chatgpt, att, disk, email_file, remaining, idx, account, invite_code, success,
                   new_codes, error_type, introduced, proxy_pool,
                   mark_failed_called, exc, loaded>>

\* mark_account_completed on the loaded dict, as called at lines 1045-1051
FileMarkCompleted ==
    /\ pc = "ledger"
    /\ \E email \in Emails, codes \in {Window(2, n) : n \in 1..3} :
        IF mark_account_completed_raises(state, TokenOrder[1])
        THEN /\ exc' = "KeyError"
             /\ pc' = "raised"
             /\ UNCHANGED state
        ELSE /\ state' = mark_account_completed(state, email, TokenOrder[1], codes)
             /\ pc' = "dirty"
             /\ UNCHANGED exc
    /\ UNCHANGED <<pool, chatgpt, att, disk, email_file, remaining, idx, account, invite_code, success,
                   new_codes, error_type, introduced, proxy_pool,
                   mark_failed_called, loaded>>

\* mark_account_failed on the loaded dict, as called at lines 1108-1114
FileMarkFailed ==
    /\ pc = "ledger"
    /\ \E email \in Emails, code \in {TokenOrder[1], TokenOrder[2]} :
        IF mark_account_failed_raises(state, code)
        THEN /\ exc' = "KeyError"
             /\ pc' = "raised"
             /\ UNCHANGED state
        ELSE /\ state' = mark_account_failed(state, email, code, "other")
             /\ pc' = "dirty"
             /\ UNCHANGED exc
    /\ UNCHANGED <<pool, chatgpt, att, disk, email_file, remaining, idx, account, invite_code, success,
                   new_codes, error_type, introduced, proxy_pool,
                   mark_failed_called, loaded>>

\* handle_invalid_invite_code on the loaded dict, as called at line 1094
FileHandleInvalid ==
    /\ pc = "ledger"
    /\ \E code \in {TokenOrder[2], SpentCode} :
        state' = handle_invalid_invite_code(state, code, login_and_generate_codes).st
    /\ pc' = "dirty"
    /\ UNCHANGED <<pool, chatgpt, att, disk, email_file, remaining, idx, account, invite_code, success,
                   new_codes, error_type, introduced, proxy_pool,
                   mark_failed_called, exc, loaded>>

\* save_state, lines 150-158: the statistics are refreshed and open(.., "w")
\* truncates the file
FileSaveOpen ==
    /\ pc \in {"ledger", "dirty"}
    /\ IF save_state_raises(state)
       THEN /\ exc' = "KeyError"
            /\ pc' = "raised"
            /\ UNCHANGED <<state, disk>>
       ELSE /\ state' = save_state(state)
            /\ disk' = EmptyFile
            /\ pc' = "save_dump"
            /\ UNCHANGED exc
    /\ UNCHANGED <<pool, chatgpt, att, email_file, remaining, idx, account, invite_code, success,
                   new_codes, error_type, introduced, proxy_pool,
                   mark_failed_called, loaded>>

\* save_state, line 159 and the end of the with block: the document is written
FileSaveDump ==
    /\ pc = "save_dump"
    /\ disk' = json_dump(state)
    /\ pc' = "saved"
    /\ UNCHANGED <<pool, chatgpt, att, state, email_file, remaining, idx, account, invite_code, success,
                   new_codes, error_type, introduced, proxy_pool,
                   mark_failed_called, exc, loaded>>

\* load_state() of a reader of the file: this process after its save, or
\* another process (preflight.py, a second register.py) at any moment
FileReaderLoads ==
    /\ pc \in {"dirty", "save_dump", "saved"}
    /\ loaded.at # pc
    /\ loaded' = [at |-> pc,
                  value |-> IF disk = EmptyFile THEN JSONDecodeError
                            ELSE load_state(disk)]
    /\ UNCHANGED <<pool, chatgpt, att, state, disk, email_file, remaining, idx, pc, account,
                   invite_code, success, new_codes, error_type, introduced,
                   proxy_pool, mark_failed_called, exc>>

NextFile ==
    \/ FileLoadState
    \/ FileMarkCompleted
    \/ FileMarkFailed
    \/ FileHandleInvalid
    \/ FileSaveOpen
    \/ FileSaveDump
    \/ FileReaderLoads

SpecFile == InitFile /\ [][NextFile]_vars

(***************************************************************************)
(* Properties.                                                             *)
(***************************************************************************)
Count(x, s) == Cardinality({i \in 1..Len(s) : s[i] = x})

\* a is a subsequence of b (same order, gaps allowed)
RECURSIVE IsSubseq(_, _)
IsSubseq(a, b) ==
    IF a = <<>> THEN TRUE
    ELSE IF b = <<>> THEN FALSE
    ELSE IF Head(a) = Head(b) THEN IsSubseq(Tail(a), Tail(b))
    ELSE IsSubseq(a, Tail(b))

InBatch == pc \in {"loop", "attempt"}

\* the step in which the attempt of the current iteration returns
AttemptReturns == pc = "attempt" /\ pc' # "attempt"

\* the places that hold code t: the two lists and the in-flight slot
Places(t) ==
    (IF InSeq(t, state.invite_pool) THEN 1 ELSE 0)
  + (IF InSeq(t, state.output_codes) THEN 1 ELSE 0)
  + (IF pc = "attempt" /\ invite_code = t THEN 1 ELSE 0)

\* C1: while run_batch runs, every code is in at most one of invite_pool,
\* output_codes and the in-flight slot; the code an attempt holds is in
\* neither list.
C1_OnePlace ==
    InBatch => \A t \in Tokens : Places(t) <= 1

\* C2: invite_pool + output_codes never contains a value twice.
C2_NoDuplicate ==
    NoDup(state.invite_pool \o state.output_codes)

Disposed ==
    {t \in DOMAIN state.invite_codes_history :
        state.invite_codes_history[t].status \in {"consumed", "invalid"}}

Accounted ==
    Len(state.invite_pool) + Len(state.output_codes) + Cardinality(Disposed)

\* Accounted, the code an attempt holds counted in
AccountedInFlight == Accounted + (IF pc = "attempt" THEN 1 ELSE 0)

\* C3: over the attempts of run_batch, len(invite_pool) + len(output_codes) +
\* the number of history entries with disposition consumed or invalid never
\* decreases (no code is dropped without a disposition) and, between
\* attempts, equals the number of codes introduced or generated so far.
C3_Conservation ==
    [][InBatch =>
        /\ AccountedInFlight' >= AccountedInFlight
        /\ pc' # "attempt" => Accounted' = introduced']_vars

\* the step of run_batch that builds the backlog
BacklogBuilt == pc = "start" /\ idx' = 1

\* C4: the backlog holds an account of the file if and only if the ledger has
\* no record of it or a record whose status is not completed.
C4_Backlog ==
    [][BacklogBuilt =>
        \A e \in Emails :
            InSeq(e, remaining') <=>
                /\ InSeq(e, email_file)
                /\ \/ e \notin DOMAIN disk.accounts
                   \/ disk.accounts[e].status # "completed"]_vars

\* a completed account that carries an error is left out of the backlog, a
\* failed one is in it
C4_Witness ==
    /\ pc = "loop"
    /\ idx = 1
    /\ \E e, f \in Elems(email_file) :
        /\ e \in DOMAIN disk.accounts
        /\ disk.accounts[e].status = "completed"
        /\ "error" \in DOMAIN disk.accounts[e]
        /\ ~InSeq(e, remaining)
        /\ f \in DOMAIN disk.accounts
        /\ disk.accounts[f].status = "failed"
        /\ InSeq(f, remaining)

\* C5: once an account is completed, no step changes its status.
C5_CompletedAbsorbing ==
    [][\A e \in DOMAIN state.accounts :
        state.accounts[e].status = "completed"
            => /\ e \in DOMAIN state'.accounts
               /\ state'.accounts[e].status = "completed"]_vars

\* the codes of a harvest are new: pairwise distinct, not the code used, in
\* neither list and not in the history
FreshHarvest(codes) ==
    /\ NoDup(codes)
    /\ \A c \in Elems(codes) :
        /\ c # invite_code
        /\ c \notin Elems(state.invite_pool) \cup Elems(state.output_codes)
        /\ c \notin DOMAIN state.invite_codes_history
    /\ ~InSeq(invite_code, state.invite_pool)
    /\ ~InSeq(invite_code, state.output_codes)

\* C6: after a success with new codes g1..gN, N >= 1, g1 is in invite_pool,
\* g2..gN are in output_codes in order, the code used is in neither list, the
\* account is completed with that code and the history of the code says
\* consumed.
C6_Commit ==
    [][AttemptReturns /\ success' /\ new_codes' # <<>> /\ FreshHarvest(new_codes') =>
        /\ InSeq(new_codes'[1], state'.invite_pool)
        /\ IsSubseq(Tail(new_codes'), state'.output_codes)
        /\ ~InSeq(invite_code, state'.invite_pool)
        /\ ~InSeq(invite_code, state'.output_codes)
        /\ account \in DOMAIN state'.accounts
        /\ state'.accounts[account].status = "completed"
        /\ state'.accounts[account].invite_code_used = invite_code
        /\ invite_code \in DOMAIN state'.invite_codes_history
        /\ state'.invite_codes_history[invite_code].status = "consumed"]_vars

\* C7: the success branch inserts no generated code that is already in
\* invite_pool, in output_codes or a key of invite_codes_history.
C7_Dedup ==
    [][AttemptReturns /\ success' /\ new_codes' # <<>> =>
        \A t \in Elems(new_codes') :
            t \in Elems(state.invite_pool) \cup Elems(state.output_codes)
                    \cup DOMAIN state.invite_codes_history
                => /\ Count(t, state'.invite_pool) = Count(t, state.invite_pool)
                   /\ Count(t, state'.output_codes) = Count(t, state.output_codes)]_vars

\* C8: from a pool that held only the code used, no output codes and no
\* history, an attempt classified invite_code_invalid leaves an empty pool,
\* the disposition invalid for the code and the account failed.
C8_InvalidScenario ==
    [][/\ AttemptReturns
       /\ error_type' = "invite_code_invalid"
       /\ state.invite_pool = <<>>
       /\ state.output_codes = <<>>
       /\ DOMAIN state.invite_codes_history = {}
       => /\ state'.invite_pool = <<>>
          /\ invite_code \in DOMAIN state'.invite_codes_history
          /\ state'.invite_codes_history[invite_code].status = "invalid"
          /\ account \in DOMAIN state'.accounts
          /\ state'.accounts[account].status = "failed"]_vars

\* C9: a code classified invite_code_invalid is not in invite_pool afterwards
\* and its history does not say returned.
C9_DiscardPermanent ==
    pc \in {"loop", "exit"} /\ error_type = "invite_code_invalid"
        => /\ ~InSeq(invite_code, state.invite_pool)
           /\ invite_code \in DOMAIN state.invite_codes_history
                => state.invite_codes_history[invite_code].status # "returned"

\* C10: after rate_limit, server_error or other, invite_pool is the pool from
\* which the code was popped, the code having been put back at the front only
\* because it was in neither list; output_codes is unchanged and the account
\* is failed with the error type and the code.
C10_ReturnToFront ==
    [][AttemptReturns /\ error_type' \in {"rate_limit", "server_error", "other"} =>
        /\ state'.invite_pool = <<invite_code>> \o state.invite_pool
        /\ ~InSeq(invite_code, state.invite_pool)
        /\ ~InSeq(invite_code, state.output_codes)
        /\ state'.output_codes = state.output_codes
        /\ account \in DOMAIN state'.accounts
        /\ state'.accounts[account].status = "failed"
        /\ state'.accounts[account].error = error_type'
        /\ state'.accounts[account].invite_code_used = invite_code]_vars

\* the scheduler is about to pop a code and the pool is empty: at the start
\* of the batch (lines 995-997) or at the top of the loop (lines 1030-1032)
PopFromEmptyPool ==
    \/ BacklogBuilt /\ disk.invite_pool = <<>>
    \/ pc = "loop" /\ idx <= Len(remaining) /\ state.invite_pool = <<>>

\* C11: when the pool is empty where a code would be popped, the step starts
\* no attempt, ends the batch and leaves accounts, invite_codes_history,
\* invite_pool and output_codes, in memory and on disk, as they were.
C11_PoolEmptyHalts ==
    [][PopFromEmptyPool =>
        /\ pc' = "exit"
        /\ invite_code' = invite_code
        /\ state'.accounts = state.accounts
        /\ state'.invite_codes_history = state.invite_codes_history
        /\ state'.invite_pool = state.invite_pool
        /\ state'.output_codes = state.output_codes
        /\ disk' = disk]_vars

\* a batch with a backlog that found the pool empty and stopped before its
\* first attempt
C11_Witness ==
    /\ pc = "exit"
    /\ idx = 1
    /\ remaining # <<>>
    /\ state.invite_pool = <<>>
    /\ account = None
    /\ invite_code = None

\* C12: the code of an attempt is the head of invite_pool when the attempt
\* starts; the pop removes that element only and keeps the order of the rest.
C12_HeadPop ==
    [][pc = "loop" /\ pc' = "attempt" =>
        /\ state.invite_pool # <<>>
        /\ invite_code' = state.invite_pool[1]
        /\ state'.invite_pool = SubSeq(state.invite_pool, 2, Len(state.invite_pool))
        /\ state'.output_codes = state.output_codes]_vars

\* an attempt holds the former head of a pool that had more than one code
C12_Witness ==
    /\ pc = "attempt"
    /\ state.invite_pool # <<>>
    /\ ~InSeq(invite_code, state.invite_pool)
    /\ disk.invite_pool = state.invite_pool

\* C13: when an attempt has returned its outcome and run_batch has handled
\* it, the code it held is in invite_pool or has a history entry with
\* disposition consumed or invalid.
C13_NoLostToken ==
    [][AttemptReturns /\ exc' = None =>
        \/ InSeq(invite_code, state'.invite_pool)
        \/ /\ invite_code \in DOMAIN state'.invite_codes_history
           /\ state'.invite_codes_history[invite_code].status
                \in {"consumed", "invalid"}]_vars

\* C14: between attempts and when the batch has ended, output/state.json
\* holds the ledger as it is in memory.
C14_Checkpoint ==
    pc \in {"loop", "exit"} => disk = state

\* C15: the code of an attempt in flight is in the last snapshot written: in
\* its invite_pool, its output_codes or its history.
C15_CrashSafe ==
    pc = "attempt" =>
        \/ InSeq(invite_code, disk.invite_pool)
        \/ InSeq(invite_code, disk.output_codes)
        \/ invite_code \in DOMAIN disk.invite_codes_history

\* C16: a reader of output/state.json never gets an empty or partial
\* document: load_state() of a reader does not fail in json.load.
C16_SnapshotAtomic ==
    loaded # NotLoaded => loaded.value # JSONDecodeError

C18_MissingFields ==
    exc # "KeyError"

\* C19: every attempt ends classified, with no exception leaving the
\* iteration of run_batch.
C19_Classified ==
    [][AttemptReturns =>
        /\ exc' = None
        /\ pc' \in {"loop", "exit"}
        /\ \/ success' /\ new_codes' # <<>>
           \/ error_type' \in ErrorTypes \cup {None}]_vars

\* C20: with a proxy pool in use, proxy_pool.mark_failed is called after a
\* classified attempt if and only if the class is rate_limit or server_error.
C20_EgressPolicy ==
    [][AttemptReturns /\ exc' = None /\ proxy_pool =>
        (mark_failed_called' <=> error_type' \in {"rate_limit", "server_error"})]_vars

\* with a proxy pool, an attempt classified server_error marked the proxy and
\* the batch went on
C20_Witness ==
    /\ pc = "loop"
    /\ proxy_pool
    /\ error_type = "server_error"
    /\ mark_failed_called
    /\ account \in DOMAIN state.accounts
    /\ state.accounts[account].error = "server_error"

\* C21: after an attempt classified with one of the five failure types, if
\* invite_pool is not empty and backlog entries remain, run_batch goes on to
\* the next entry.
C21_NoOutcomeTerminates ==
    [][/\ AttemptReturns
       /\ exc' = None
       /\ error_type' \in ErrorTypes
       /\ state'.invite_pool # <<>>
       /\ idx < Len(remaining)
       => pc' = "loop" /\ idx' = idx + 1]_vars

AllBacklogCompleted ==
    \A i \in 1..Len(remaining) :
        /\ remaining[i] \in DOMAIN state.accounts
        /\ state.accounts[remaining[i]].status = "completed"

\* C23: when the register process has run a batch and ended, its exit code is
\* 0 exactly when every backlog account ended completed.
C23_ExitCode ==
    pc \in {"exit", "raised"} /\ idx >= 1
        => (ExitCode = 0 <=> AllBacklogCompleted)

\* C24: when an attempt is classified invite_code_invalid and invite_pool
\* still holds a code, nothing is taken from output_codes.
C24_ReplenishOnlyIfEmpty ==
    [][/\ AttemptReturns
       /\ exc' = None
       /\ error_type' = "invite_code_invalid"
       /\ state.invite_pool # <<>>
       => state'.output_codes = state.output_codes]_vars

C29_PartialHarvest ==
    [][AttemptReturns /\ exc' = None /\ success' /\ new_codes' # <<>> =>
        /\ account \in DOMAIN state'.accounts
        /\ LET r == state'.accounts[account]
           IN  /\ r.status = "completed"
               /\ r.invite_codes_generated = new_codes'
               /\ r.codes_generation_complete <=> Len(new_codes') = 3
               /\ InSeq(account, NeedCheck(state', email_file, "smart"))
                    <=> /\ ~r.codes_generation_complete
                        /\ Len(r.invite_codes_generated) # 3]_vars

\* a success with one or two codes: completed, flagged incomplete and
\* selected by smart-mode preflight
C29_Witness ==
    /\ pc = "loop"
    /\ success
    /\ Len(new_codes) \in {1, 2}
    /\ account \in DOMAIN state.accounts
    /\ state.accounts[account].status = "completed"
    /\ state.accounts[account].invite_codes_generated = new_codes
    /\ ~state.accounts[account].codes_generation_complete
    /\ InSeq(account, NeedCheck(state, email_file, "smart"))

\* C30: when the pool is not empty at the start of the batch and every
\* attempt succeeds with at least one code, the pool is not empty whenever
\* the loop takes the next backlog entry, and run_batch ends with every
\* backlog account completed.
C30_Fission ==
    /\ [](pc = "loop" /\ idx <= Len(remaining) => state.invite_pool # <<>>)
    /\ <>(pc = "exit" /\ idx >= 1 /\ AllBacklogCompleted)

\* a batch of two attempts has ended with both accounts completed
C30_Witness ==
    /\ pc = "exit"
    /\ Len(remaining) = 2
    /\ idx = 3
    /\ AllBacklogCompleted
    /\ state.invite_pool # <<>>

\* the position in att.mailbox of the message that carries code c
SourceOf(c) == CHOOSE i \in 1..Len(att.mailbox) : att.mailbox[i].code = c

\* C26: known_ids is taken before Send Code is clicked, and a code returned
\* by poll_for_code comes from a message that arrived after the baseline
\* passed to that call was taken, never from a message that was in the
\* mailbox before.
C26_FreshOtp ==
    /\ att.pc \in {"code_input", "poll"} => att.baselines # <<>>
    /\ att.pc = "submit_otp" /\ att.otp_code # None
        => SourceOf(att.otp_code) > att.baselines[Len(att.baselines)]

C28_HarvestContext ==
    /\ [](att.ctx2 # "none" => att.context = "closed")
    /\ [][att'.harvest_in # att.harvest_in
            => /\ att'.harvest_in = "ctx2"
               /\ att.ctx2 = "open"
               /\ att.context = "closed"]_vars
    /\ [](att.pc \in {"return", "returned"} => att.ctx2 \in {"none", "closed"})
    /\ (att.ctx2 = "open") ~> (att.ctx2 = "closed")

\* the harvest raised in ctx2 and the attempt returned with ctx2 closed
C28_Witness ==
    /\ att.pc = "returned"
    /\ att.harvest_in = "ctx2"
    /\ att.raised
    /\ att.ctx2 = "closed"
    /\ att.context = "closed"
    /\ error_type = "other"

\* C32: an attempt commits (the account becomes completed with the token as
\* invite_code_used, the token is recorded consumed and is not put back) iff
\* it returned success with at least one code; every other return leaves the
\* account record as it was or failed and records no token as consumed; a
\* success with no code puts the token
\* back at the front of invite_pool and records the account failed with the
\* error "unknown".
C32_CommitIffCodes ==
    [][AttemptReturns /\ exc' = None =>
        /\ (success' /\ new_codes' # <<>>) =>
                /\ account \in DOMAIN state'.accounts
                /\ state'.accounts[account].status = "completed"
                /\ state'.accounts[account].invite_code_used = invite_code
                /\ invite_code \in DOMAIN state'.invite_codes_history
                /\ state'.invite_codes_history[invite_code].status = "consumed"
                /\ state'.invite_pool = Append(state.invite_pool, new_codes'[1])
        /\ ~(success' /\ new_codes' # <<>>) =>
                /\ account \in DOMAIN state'.accounts =>
                        \/ state'.accounts[account].status = "failed"
                        \/ /\ account \in DOMAIN state.accounts
                           /\ state'.accounts[account] = state.accounts[account]
                /\ \A c \in DOMAIN state'.invite_codes_history :
                        state'.invite_codes_history[c].status = "consumed"
                            => /\ c \in DOMAIN state.invite_codes_history
                               /\ state'.invite_codes_history[c]
                                    = state.invite_codes_history[c]
        /\ (success' /\ new_codes' = <<>>) =>
                /\ state'.invite_pool = <<invite_code>> \o state.invite_pool
                /\ account \in DOMAIN state'.accounts
                /\ state'.accounts[account].status = "failed"
                /\ state'.accounts[account].error = "unknown"]_vars

\* an attempt that reported success without codes has returned while the
\* pool held another token: the token is back at the front of the pool and
\* the account is recorded failed with the error "unknown"
C32_Witness ==
    /\ pc = "loop"
    /\ success
    /\ new_codes = <<>>
    /\ Len(state.invite_pool) >= 2
    /\ state.invite_pool[1] = invite_code
    /\ account \in DOMAIN state.accounts
    /\ state.accounts[account].status = "failed"
    /\ state.accounts[account].error = "unknown"

\* C33: a token whose history entry has the status "consumed" is not a
\* member of invite_pool.
C33_ConsumedNeverInPool ==
    \A c \in DOMAIN Get(state, "invite_codes_history", EmptyDict) :
        state.invite_codes_history[c].status = "consumed"
            => ~InSeq(c, state.invite_pool)

\* C36: the state update of preflight removes no token: every token that was
\* in invite_pool or output_codes of the ledger before the update is in one
\* of the two lists after it.
C36_PreflightKeepsTokens ==
    [][pc = "start" /\ pc' = "exit" /\ disk' # disk =>
        \A c \in Elems(disk.invite_pool \o disk.output_codes) :
            c \in Elems(disk'.invite_pool \o disk'.output_codes)]_vars

\* C34: one call of handle_invalid_invite_code makes at most
\* len(output_codes) + 1 invocations, every recursive invocation follows the
\* removal of one element of output_codes, a True result means a token was
\* added to invite_pool or the pool is non-empty after a harvest, and a False
\* result leaves invite_pool as it was.
C34_InvalidHandlerBounded ==
    [][pc = "handler" /\ error_type' = "invite_code_invalid" =>
        LET n == handle_invalid_invite_code_calls(state, invite_code, new_codes')
        IN  /\ n <= Len(state.output_codes) + 1
            /\ Len(state.output_codes) - Len(state'.output_codes) >= n - 1
            /\ success' =>
                    \/ \E c \in Tokens : Count(c, state'.invite_pool)
                                            > Count(c, state.invite_pool)
                    \/ /\ state'.output_codes = <<>>
                       /\ new_codes' # <<>>
                       /\ state'.invite_pool # <<>>
            /\ ~success' => state'.invite_pool = state.invite_pool]_vars

\* a call that skipped a code already in the pool, called itself and then
\* moved the next code of output_codes to the pool
C34_Witness ==
    /\ pc = "handled"
    /\ error_type = "invite_code_invalid"
    /\ success
    /\ Len(disk.output_codes) - Len(state.output_codes) >= 2
    /\ Len(state.invite_pool) = Len(disk.invite_pool) + 1

\* C37: handle_email_registered leaves invite_pool non-empty with the token
\* returned; every harvested code that is in neither list is appended to
\* output_codes, once, and none to invite_pool; the account records and the
\* history are unchanged.
C37_EmailRegisteredFrame ==
    [][pc = "handler" /\ error_type' = "email_registered" =>
        LET returned == IF InSeq(invite_code, state.invite_pool)
                        THEN state.invite_pool
                        ELSE <<invite_code>> \o state.invite_pool
            fresh == Elems(new_codes')
                        \ (Elems(returned) \cup Elems(state.output_codes))
        IN  /\ returned # <<>>
            /\ state'.invite_pool = returned
            /\ Len(state'.output_codes) = Len(state.output_codes) + Cardinality(fresh)
            /\ Slice(state'.output_codes, 0, Len(state.output_codes))
                    = state.output_codes
            /\ Elems(state'.output_codes) = Elems(state.output_codes) \cup fresh
            /\ state'.accounts = state.accounts
            /\ state'.invite_codes_history = state.invite_codes_history]_vars

\* the handler was called on an empty pool with a harvest of new codes: the
\* token is the only member of the pool and output_codes grew
C37_Witness ==
    /\ pc = "handled"
    /\ error_type = "email_registered"
    /\ disk.invite_pool = <<>>
    /\ state.invite_pool = <<invite_code>>
    /\ Len(state.output_codes) >= Len(disk.output_codes) + 2

\* C35: within one run_batch the loop index never goes back and stays within
\* the backlog, an attempt takes the entry at the index and pops exactly one
\* token, every attempt that returns into the loop advances the index, and
\* the account of a new attempt was not attempted earlier in this invocation.
C35_OneAttemptPerAccount ==
    [][InBatch =>
        /\ idx' >= idx
        /\ idx <= Len(remaining) + 1
        /\ (pc = "loop" /\ pc' = "attempt") =>
                /\ account' = remaining[idx]
                /\ invite_code' = Head(state.invite_pool)
                /\ state'.invite_pool = Tail(state.invite_pool)
                /\ \A j \in 1..(idx - 1) : remaining[j] # account'
        /\ (pc = "attempt" /\ pc' = "loop") => idx' = idx + 1
        /\ pc = "loop" => pc' \in {"attempt", "exit"}]_vars

\* the categories in the order of priority, and the categories whose wording
\* a page text shows at a step: invalid-code wording counts at the
\* invite-code step, already-registered wording at the send-code step,
\* throttling and server-error wording at both
CategoryOrder ==
    <<"invite_code_invalid", "email_registered", "rate_limit", "server_error", "other">>

Rank(c) == CHOOSE i \in 1..Len(CategoryOrder) : CategoryOrder[i] = c

Matched(step, text) ==
    {c \in {"invite_code_invalid", "email_registered", "rate_limit", "server_error"} :
        \/ c = "invite_code_invalid" /\ step = "invite_code" /\ text \cap InvalidWords # {}
        \/ c = "email_registered" /\ step = "send_code" /\ text \cap RegisteredWords # {}
        \/ c = "rate_limit" /\ text \cap ThrottleWords # {}
        \/ c = "server_error" /\ text \cap ServerWords # {}}

\* C31: when the page of a step does not show the next input and its text
\* has the wording of more than one category, the attempt returns the
\* matched category that comes first in the order invite_code_invalid,
\* email_registered, rate_limit, server_error, other.
C31_ClassificationPriority ==
    [][att.pc \in {"invite_code", "send_code"} /\ ~att'.visible
            /\ Cardinality(Matched(att.pc, att'.page_text)) >= 2 =>
        /\ att'.pc = "returned"
        /\ error_type' \in Matched(att.pc, att'.page_text)
        /\ \A c \in Matched(att.pc, att'.page_text) : Rank(error_type') <= Rank(c)]_vars

\* C38: in normal mode an address that get_proxy returns is available when it
\* is returned (its failure count is below max_failures or its last failure
\* is at least retry_interval ago), also when it comes from the API, and
\* get_proxy returns None only when no address of the list is available.
C38_NeverUnavailable ==
    [][/\ pool.mode = "normal"
       /\ pool'.op = "get_proxy"
       /\ pool'.pc = "idle"
       /\ pool'.now = pool.now
       =>
        IF pool'.returned # None
        THEN is_available(pool', pool'.returned)
        ELSE \A proxy \in Elems(pool'.proxies) : ~is_available(pool', proxy)]_vars

\* C39: in Mihomo mode mark_failed raises the failure count of the current
\* node by one and of no other node, and changes the node only with
\* auto_switch on and the count at max_failures or above; a node that
\* _switch_mihomo_node asks of the controller is a node of the group,
\* available and not the current one; current_mihomo_node changes only to the
\* node asked and only with the controller's confirmation;
\* mark_success sets the failure count of the current node to 0.
C39_MihomoSwitch ==
    [][/\ pool.mode = "mihomo"
       /\ pool'.op \in {"mark_failed", "mark_success", "switch_node",
                         "switch_node_named"}
       /\ pool'.now = pool.now
       /\ pool' # pool
       =>
        LET cur == pool.current_mihomo_node
            new == pool'.current_mihomo_node
            failures(p, n) == Get(p.proxy_stats, n, [failures |-> 0]).failures
        IN  /\ pool'.op = "mark_failed" =>
                /\ \A n \in DOMAIN pool'.proxy_stats :
                        n # cur => failures(pool', n) <= failures(pool, n)
                /\ cur # None => failures(pool', cur) = failures(pool, cur) + 1
                /\ new # cur => /\ pool.auto_switch
                                /\ failures(pool', cur) >= pool.max_failures
            /\ new # cur => pool'.confirmed
            /\ (pool'.requested # None /\ pool'.op \in {"mark_failed", "switch_node"}) =>
                /\ InSeq(pool'.requested, pool.mihomo_nodes)
                /\ is_available(pool', pool'.requested)
                /\ pool'.requested # cur
            /\ new # cur => new = pool'.requested
            /\ (pool'.op = "mark_success" /\ cur # None) =>
                /\ failures(pool', cur) = 0
                /\ new = cur]_vars

\* mark_failed has brought the current node to max_failures and the
\* controller confirmed the switch to another node
C39_Witness ==
    /\ pool.mode = "mihomo"
    /\ pool.op = "mark_failed"
    /\ pool.confirmed
    /\ \E n \in Elems(pool.mihomo_nodes) :
            /\ n # pool.current_mihomo_node
            /\ pool.proxy_stats[n].failures >= pool.max_failures
            /\ pool.proxy_stats[n].last_failed = pool.now

\* C40: in every interleaving of the worker threads, when the batch is
\* finished success_count + fail_count is the number of tasks and each
\* count is the number of tasks with that result; the output file changes
\* only by the append of the whole line of the task that holds _file_lock;
\* a task that succeeded has its line in the file once, a task that failed
\* or has not written yet has none.
C40_CountedOnceWholeLines ==
    /\ [](chatgpt.pc = "done" =>
            /\ chatgpt.success_count + chatgpt.fail_count = chatgpt.total
            /\ chatgpt.success_count
                    = Cardinality({i \in 1..chatgpt.total : chatgpt.task[i] = "ok"})
            /\ chatgpt.fail_count
                    = Cardinality({i \in 1..chatgpt.total : chatgpt.task[i] = "fail"}))
    /\ [](\A i \in 1..chatgpt.total :
            Count(i, chatgpt.output_file)
                = IF chatgpt.task[i] \in {"release", "ok"} THEN 1 ELSE 0)
    /\ [][chatgpt'.output_file # chatgpt.output_file =>
            /\ chatgpt.file_lock \in 1..chatgpt.total
            /\ chatgpt.task[chatgpt.file_lock] = "write"
            /\ chatgpt'.output_file
                    = Append(chatgpt.output_file, chatgpt.file_lock)]_vars

\* a batch of at least two tasks run by at least two workers has ended with
\* a success and a failure, on an output file that was not empty
C40_Witness ==
    /\ chatgpt.pc = "done"
    /\ chatgpt.actual_workers >= 2
    /\ chatgpt.success_count >= 1
    /\ chatgpt.fail_count >= 1
    /\ Len(chatgpt.output_file) = chatgpt.success_count + 1

====
